---- MODULE Spec2Model ----
(***************************************************************************)
(* Model of operadic_consistency: the tree of questions (ToQ), its         *)
(* validation, leaves-to-root evaluation through an answerer, and the      *)
(* consistency orchestrator run_consistency_check with its collapsed-      *)
(* question cache.                                                         *)
(*                                                                         *)
(* Texts are sequences of one-character strings.  A dict is a function     *)
(* together with the sequence of its keys in insertion order, because      *)
(* Python dicts iterate in insertion order and the code iterates them.     *)
(***************************************************************************)
EXTENDS Integers, Sequences, FiniteSets, TLC

\* Largest number of nodes of an input tree; node ids are 1..MaxNodes.
MaxNodes == 3

\* Optional[...] = None.  Node ids are positive, so 0 is free to stand for it.
None == 0

NodeIds == 1..MaxNodes

----------------------------------------------------------------------------
(* Strings *)

\* f"{cid}" for a node id (ids of the model have one decimal digit)
Digit(n) == <<"0", "1", "2", "3", "4", "5", "6", "7", "8", "9">>[n + 1]

\* f"[A{cid}]"
Placeholder(cid) == <<"[", "A", Digit(cid), "]">>

\* str.replace(old, new): leftmost, non-overlapping occurrences, left to right
RECURSIVE Replace(_, _, _)
Replace(s, old, new) ==
    IF Len(s) < Len(old) THEN s
    ELSE IF SubSeq(s, 1, Len(old)) = old
         THEN new \o Replace(SubSeq(s, Len(old) + 1, Len(s)), old, new)
         ELSE <<Head(s)>> \o Replace(Tail(s), old, new)

\* "".join(parts) for a sequence of strings
RECURSIVE Join(_)
Join(parts) == IF parts = <<>> THEN <<>> ELSE Head(parts) \o Join(Tail(parts))

\* sorted(S) for a finite set of integers
RECURSIVE Sorted(_)
Sorted(S) ==
    IF S = {} THEN <<>>
    ELSE LET m == CHOOSE x \in S : \A y \in S : x <= y
         IN <<m>> \o Sorted(S \ {m})

Range(s) == {s[i] : i \in 1..Len(s)}

Reverse(s) == [i \in 1..Len(s) |-> s[Len(s) + 1 - i]]

----------------------------------------------------------------------------
(* core/toq_types.py *)

\* ToQNode(id, text, parent)
ToQNode(id, text, parent) == [id |-> id, text |-> text, parent |-> parent]

\* ToQ(nodes, root_id); keys is the insertion order of the nodes dict
ToQ(keys, nodes, root_id) == [keys |-> keys, nodes |-> nodes, root_id |-> root_id]

\* ToQ.children: node -> list of child ids, in the order the nodes dict lists them
children(toq) ==
    [nid \in Range(toq.keys) |->
        SelectSeq(toq.keys, LAMBDA c : toq.nodes[c].parent # None
                                       /\ toq.nodes[c].parent = nid)]

\* Faulty variant of NodeError: node.id is not compared with the key
NodeError_id_unchecked(toq, nid) ==
    LET node == toq.nodes[nid] IN
    IF node.parent # None /\ node.parent \notin Range(toq.keys) THEN "missing parent"
    ELSE IF node.parent = nid THEN "own parent"
    ELSE "ok"

\* the per-node checks of the first loop of validate, in the code's order
NodeError(toq, nid) ==
    LET node == toq.nodes[nid] IN
    IF node.id # nid THEN "key != node.id"
    ELSE IF node.parent # None /\ node.parent \notin Range(toq.keys) THEN "missing parent"
    ELSE IF node.parent = nid THEN "own parent"
    ELSE "ok"

\* the first loop of validate: the first node, in dict order, with an error
RECURSIVE LoopError(_, _)
LoopError(toq, ks) ==
    IF ks = <<>> THEN "ok"
    ELSE IF NodeError(toq, Head(ks)) # "ok" THEN NodeError(toq, Head(ks))
    ELSE LoopError(toq, Tail(ks))

\* the nested dfs of validate; st = [visited, in_stack, err]
RECURSIVE dfs(_, _, _)
RECURSIVE dfsChildren(_, _, _)
dfsChildren(ch, vs, st) ==
    IF vs = <<>> \/ st.err # "ok" THEN st
    ELSE LET v == Head(vs) IN
         IF v \in st.in_stack THEN [st EXCEPT !.err = "cycle"]
         ELSE IF v \notin st.visited
              THEN dfsChildren(ch, Tail(vs), dfs(ch, v, st))
              ELSE dfsChildren(ch, Tail(vs), st)

dfs(ch, u, st) ==
    LET entered == [st EXCEPT !.visited = @ \cup {u}, !.in_stack = @ \cup {u}]
        after   == dfsChildren(ch, ch[u], entered)
    IN IF after.err # "ok" THEN after
       ELSE [after EXCEPT !.in_stack = @ \ {u}]

\* Faulty variant of validate: the visited count is not compared with the
\* node count
validate_reachability_unchecked(toq) ==
    IF toq.root_id \notin Range(toq.keys) THEN "root_id not in nodes"
    ELSE IF LoopError(toq, toq.keys) # "ok" THEN LoopError(toq, toq.keys)
    ELSE IF toq.nodes[toq.root_id].parent # None THEN "root must have parent=None"
    ELSE LET roots == SelectSeq(toq.keys, LAMBDA k : toq.nodes[k].parent = None) IN
         IF Len(roots) # 1 THEN "expected exactly 1 root"
         ELSE IF roots[1] # toq.root_id THEN "root_id != the unique root"
         ELSE dfs(children(toq), toq.root_id,
                  [visited |-> {}, in_stack |-> {}, err |-> "ok"]).err

\* Faulty variant of validate: the checks of the root ("exactly one root")
\* are left out
validate_root_unchecked(toq) ==
    IF toq.root_id \notin Range(toq.keys) THEN "root_id not in nodes"
    ELSE IF LoopError(toq, toq.keys) # "ok" THEN LoopError(toq, toq.keys)
    ELSE LET st == dfs(children(toq), toq.root_id,
                       [visited |-> {}, in_stack |-> {}, err |-> "ok"])
         IN IF st.err # "ok" THEN st.err
            ELSE IF Cardinality(st.visited) # Len(toq.keys) THEN "unreachable nodes"
            ELSE "ok"

\* ToQ.validate: "ok" when it returns, else the ValueError it raises
validate(toq) ==
    IF toq.root_id \notin Range(toq.keys) THEN "root_id not in nodes"
    ELSE IF LoopError(toq, toq.keys) # "ok" THEN LoopError(toq, toq.keys)
    ELSE IF toq.nodes[toq.root_id].parent # None THEN "root must have parent=None"
    ELSE LET roots == SelectSeq(toq.keys, LAMBDA k : toq.nodes[k].parent = None) IN
         IF Len(roots) # 1 THEN "expected exactly 1 root"
         ELSE IF roots[1] # toq.root_id THEN "root_id != the unique root"
         ELSE LET st == dfs(children(toq), toq.root_id,
                            [visited |-> {}, in_stack |-> {}, err |-> "ok"])
              IN IF st.err # "ok" THEN st.err
                 ELSE IF Cardinality(st.visited) # Len(toq.keys) THEN "unreachable nodes"
                 ELSE "ok"

----------------------------------------------------------------------------
(* core/interfaces.py: the oracles, as the deterministic test doubles *)

\* Answer(text, meta)
Answer(text, meta) == [text |-> text, meta |-> meta]

\* An answerer (RecordingAnswerer): Answer(f"ANS({question})", meta = context)
answerer(question, context) == Answer(<<"A", "(">> \o question \o <<")">>, context)

\* A normalizer: any deterministic text -> text map
normalizer(answer_text) == <<"n", "(">> \o answer_text \o <<")">>

\* A dict with its insertion order
Dict(keys, val) == [keys |-> keys, val |-> val]

EmptyDict == Dict(<<>>, <<>>)

\* A collapser that reads everything it is given: the root id, every node of
\* the OpenToQ (text and parent) and the inputs, which it leaves as [A<id>].
collapser(open_toq, context) ==
    <<"C", "(", Digit(open_toq.root_id), "|">>
    \o Join([i \in 1..Len(open_toq.toq.keys) |->
                LET node == open_toq.toq.nodes[open_toq.toq.keys[i]]
                IN node.text \o <<"^", Digit(node.parent)>>])
    \o <<"|">>
    \o Join([i \in 1..Len(open_toq.inputs) |-> Placeholder(open_toq.inputs[i])])
    \o <<")">>

\* The collapser of examples/minimal_consistency.py: the text of the
\* component's root node as it is
TinyCollapser(open_toq, context) == open_toq.toq.nodes[open_toq.root_id].text

\* Faulty variant of collapse: the caller's collapser is not the one called
collapse_other_collapser(name, open_toq, context) == collapser(open_toq, context)

\* collapser(open_toq, context=context) for the collapser the caller passed
collapse(name, open_toq, context) ==
    IF name = "TinyCollapser" THEN TinyCollapser(open_toq, context)
    ELSE collapser(open_toq, context)

----------------------------------------------------------------------------
(* core/evaluate.py *)

\* EvalTrace(rendered_question, answer)
EvalTrace(rendered, answers) == [rendered_question |-> rendered, answer |-> answers]

\* the loop of default_substituter over child_answers.items()
RECURSIVE SubstituteLoop(_, _, _)
SubstituteLoop(out, cids, child_answers) ==
    IF cids = <<>> THEN out
    ELSE SubstituteLoop(Replace(out, Placeholder(Head(cids)), child_answers[Head(cids)]),
                        Tail(cids), child_answers)

\* default_substituter(template, child_answers)
default_substituter(template, child_answers) ==
    SubstituteLoop(template, child_answers.keys, child_answers.val)

\* A caller's substituter (test_custom_substituter): the template, then
\* "cid=answer" for the children in ascending id order
custom_substituter(template, child_answers) ==
    LET cids == Sorted(Range(child_answers.keys)) IN
    template \o <<"#">>
    \o Join([i \in 1..Len(cids) |->
                <<Digit(cids[i]), "=">> \o child_answers.val[cids[i]] \o <<";">>])

\* the nested dfs of _postorder; st = [visited, order]
RECURSIVE postorderDfs(_, _, _)
RECURSIVE postorderChildren(_, _, _)
postorderChildren(ch, cs, st) ==
    IF cs = <<>> THEN st
    ELSE postorderChildren(ch, Tail(cs), postorderDfs(ch, Head(cs), st))

postorderDfs(ch, n, st) ==
    IF n \in st.visited THEN st
    ELSE LET entered == [st EXCEPT !.visited = @ \cup {n}]
             after   == postorderChildren(ch, ch[n], entered)
         IN [after EXCEPT !.order = Append(@, n)]

\* Faulty variant of postorder: the root is appended once more after the dfs
postorder_root_twice(toq) ==
    Append(postorderDfs(children(toq), toq.root_id, [visited |-> {}, order |-> <<>>]).order,
           toq.root_id)

\* _postorder(toq)
postorder(toq) ==
    postorderDfs(children(toq), toq.root_id, [visited |-> {}, order |-> <<>>]).order

----------------------------------------------------------------------------
(* core/transforms.py *)

\* CollapsePlan(cut_edges): a sorted tuple of cut node ids
CollapsePlan(cut_edges) == [cut_edges |-> cut_edges]

\* Python's tuple comparison a < b
RECURSIVE TupleLess(_, _)
TupleLess(a, b) ==
    IF b = <<>> THEN FALSE
    ELSE IF a = <<>> THEN TRUE
    ELSE IF Head(a) # Head(b) THEN Head(a) < Head(b)
    ELSE TupleLess(Tail(a), Tail(b))

\* sorted(S) for a finite set of tuples
RECURSIVE SortedTuples(_)
SortedTuples(S) ==
    IF S = {} THEN <<>>
    ELSE LET m == CHOOSE x \in S : \A y \in S \ {x} : TupleLess(x, y)
         IN <<m>> \o SortedTuples(S \ {m})

\* Faulty variant of enumerate_collapse_plans: only the plans of at most one cut
enumerate_collapse_plans_single_cuts(toq, include_empty) ==
    LET non_root == Range(toq.keys) \ {toq.root_id}
        cuts     == {Sorted(S) : S \in {T \in SUBSET non_root : Cardinality(T) <= 1}}
        wanted   == IF include_empty THEN cuts ELSE cuts \ {<<>>}
        ordered  == SortedTuples(wanted)
    IN [i \in 1..Len(ordered) |-> CollapsePlan(ordered[i])]

\* enumerate_collapse_plans(toq, include_empty): every subset of the non-root
\* ids, ascending by sorted cut-id tuple; the empty plan dropped on request
enumerate_collapse_plans(toq, include_empty) ==
    LET non_root == Range(toq.keys) \ {toq.root_id}
        cuts     == {Sorted(S) : S \in SUBSET non_root}
        wanted   == IF include_empty THEN cuts ELSE cuts \ {<<>>}
        ordered  == SortedTuples(wanted)
    IN [i \in 1..Len(ordered) |-> CollapsePlan(ordered[i])]

\* Faulty variant of component_roots_error: the root id may be a cut id
component_roots_error_root_allowed(toq, plan) ==
    IF \E c \in Range(plan.cut_edges) : c \notin Range(toq.keys) THEN "node not in tree"
    ELSE "ok"

\* the PlanError of component_roots, "ok" when there is none
component_roots_error(toq, plan) ==
    IF toq.root_id \in Range(plan.cut_edges) THEN "root id cannot be a cut edge"
    ELSE IF \E c \in Range(plan.cut_edges) : c \notin Range(toq.keys) THEN "node not in tree"
    ELSE "ok"

\* component_roots(toq, plan) = {root} | cut ids, iterated in ascending order
component_roots(toq, plan) == Sorted({toq.root_id} \cup Range(plan.cut_edges))

\* the downward traversal of extract_open_toq: the nodes reached from the
\* frontier without passing through a cut id
RECURSIVE ComponentNodes(_, _, _, _)
ComponentNodes(toq, cut, frontier, seen) ==
    IF frontier = {} THEN seen
    ELSE LET next == {c \in Range(toq.keys) :
                        /\ toq.nodes[c].parent \in frontier
                        /\ c \notin cut
                        /\ c \notin seen}
         IN ComponentNodes(toq, cut, next, seen \cup next)

\* OpenToQ(toq, inputs, root_id)
OpenToQ(toq, inputs, root_id) == [toq |-> toq, inputs |-> inputs, root_id |-> root_id]

\* Faulty variant of extract_open_toq: the traversal does not stop at cut ids
extract_open_toq_through_cuts(toq, plan, root) ==
    LET cut    == Range(plan.cut_edges)
        inside == ComponentNodes(toq, {}, {root}, {root})
        keys   == SelectSeq(toq.keys, LAMBDA k : k \in inside)
        nodes  == [k \in inside |->
                     ToQNode(k, toq.nodes[k].text,
                             IF k = root THEN None ELSE toq.nodes[k].parent)]
        inputs == Sorted({c \in cut : toq.nodes[c].parent \in inside})
    IN OpenToQ(ToQ(keys, nodes, root), inputs, root)

\* extract_open_toq(toq, plan, root)
extract_open_toq(toq, plan, root) ==
    LET cut    == Range(plan.cut_edges)
        inside == ComponentNodes(toq, cut, {root}, {root})
        keys   == SelectSeq(toq.keys, LAMBDA k : k \in inside)
        nodes  == [k \in inside |->
                     ToQNode(k, toq.nodes[k].text,
                             IF k = root THEN None ELSE toq.nodes[k].parent)]
        inputs == Sorted({c \in cut : toq.nodes[c].parent \in inside})
    IN OpenToQ(ToQ(keys, nodes, root), inputs, root)

\* the nearest component root at or above node n
RECURSIVE NearestRoot(_, _, _)
NearestRoot(toq, roots, n) ==
    IF n \in roots THEN n ELSE NearestRoot(toq, roots, toq.nodes[n].parent)

\* the PlanError of apply_collapse_plan, "ok" when there is none
apply_collapse_plan_error(toq, plan, collapsed_question_by_root) ==
    IF component_roots_error(toq, plan) # "ok" THEN component_roots_error(toq, plan)
    ELSE IF \E r \in Range(component_roots(toq, plan)) :
               r \notin Range(collapsed_question_by_root.keys)
         THEN "missing collapsed question"
    ELSE "ok"

\* Faulty variant of apply_collapse_plan: a component root keeps its original
\* parent
apply_collapse_plan_original_parent(toq, plan, collapsed_question_by_root) ==
    LET roots == Range(component_roots(toq, plan))
        keys  == SelectSeq(toq.keys, LAMBDA k : k \in roots)
        nodes == [r \in roots |->
                    ToQNode(r, collapsed_question_by_root.val[r], toq.nodes[r].parent)]
    IN [toq |-> ToQ(keys, nodes, toq.root_id),
        plan |-> plan,
        removed_nodes |-> Range(toq.keys) \ roots,
        collapsed_question_by_root |-> collapsed_question_by_root,
        component_roots |-> roots,
        open_toq_by_root |-> EmptyDict]

\* apply_collapse_plan(toq, plan, collapsed_question_by_root): the CollapsedToQ
apply_collapse_plan(toq, plan, collapsed_question_by_root) ==
    LET roots == Range(component_roots(toq, plan))
        keys  == SelectSeq(toq.keys, LAMBDA k : k \in roots)
        nodes == [r \in roots |->
                    ToQNode(r, collapsed_question_by_root.val[r],
                            IF r = toq.root_id THEN None
                            ELSE NearestRoot(toq, roots, toq.nodes[r].parent))]
    IN [toq |-> ToQ(keys, nodes, toq.root_id),
        plan |-> plan,
        removed_nodes |-> Range(toq.keys) \ roots,
        collapsed_question_by_root |-> collapsed_question_by_root,
        component_roots |-> roots,
        open_toq_by_root |-> EmptyDict]

----------------------------------------------------------------------------
(* core/consistency.py: run_consistency_check as a state machine *)

VARIABLES
    call,       \* the arguments of the call: entry point, tree, plan_opts, oracles,
                \* context, and the cache as the caller passed it
    toq,        \* the tree under check (for the question entry point, the decomposer's)
    pc,         \* where the call stands
    cache,      \* the collapsed-question cache, a dict in insertion order
    calls,      \* every oracle call made so far, in order
    ev,         \* the evaluate_toq in progress: tree, order, position, rendered, answers
    base_trace, \* the baseline EvalTrace
    plans,      \* the plan list
    plan_i,     \* index of the plan being processed
    roots,      \* component roots of the current plan, in iteration order
    root_i,     \* index of the component root being collapsed
    open_toq_by_root,
    collapsed_question_by_root,
    collapsed,  \* the CollapsedToQ of the current plan
    runs,       \* the RunRecords appended so far
    result,     \* the returned ConsistencyReport, or the error raised
    subst,      \* a direct call of default_substituter: its arguments and its result
    direct,     \* a direct call of another function of the library or of a batch
                \* driver: its arguments, its position and its outcome
    first       \* what an earlier invocation on the same arguments produced

vars == <<call, toq, pc, cache, calls, ev, base_trace, plans, plan_i, roots, root_i,
          open_toq_by_root, collapsed_question_by_root, collapsed, runs, result,
          subst, direct, first>>

\* RunRecord(plan, collapsed, trace, root_answer, normalized_root)
RunRecord(plan, coll, trace, root_answer, normalized_root) ==
    [plan |-> plan, collapsed |-> coll, trace |-> trace,
     root_answer |-> root_answer, normalized_root |-> normalized_root]

\* ConsistencyReport(base_trace, base_root_answer, runs, summary)
ConsistencyReport(bt, base_root_answer, rs) ==
    [base_trace |-> bt, base_root_answer |-> base_root_answer, runs |-> rs,
     summary |-> EmptyDict]

\* one entry of the call log
Call(oracle, nid, text, child_answers, open_toq, context) ==
    [oracle |-> oracle, nid |-> nid, text |-> text, child_answers |-> child_answers,
     open_toq |-> open_toq, context |-> context]

NoOpenToQ == OpenToQ(ToQ(<<>>, <<>>, None), <<>>, None)

NoEval == [toq |-> ToQ(<<>>, <<>>, None), order |-> <<>>, i |-> 1,
           rendered |-> EmptyDict, answers |-> EmptyDict, mark |-> 0]

NoTrace == EvalTrace(EmptyDict, EmptyDict)

NoCollapsed ==
    [toq |-> ToQ(<<>>, <<>>, None), plan |-> CollapsePlan(<<>>), removed_nodes |-> {},
     collapsed_question_by_root |-> EmptyDict, component_roots |-> {},
     open_toq_by_root |-> EmptyDict]

\* dict[key] = value on a dict kept with its insertion order
DictSet(d, key, value) ==
    IF key \in Range(d.keys)
    THEN Dict(d.keys, [k \in Range(d.keys) |-> IF k = key THEN value ELSE d.val[k]])
    ELSE Dict(Append(d.keys, key),
              [k \in Range(d.keys) \cup {key} |-> IF k = key THEN value ELSE d.val[k]])

\* Faulty variant of cache_key: the inputs are left out of the key
cache_key_without_inputs(r, open_toq) == <<"collapsed_question_open_toq", r, <<>>>>

\* the cache key of one component
cache_key(r, open_toq) == <<"collapsed_question_open_toq", r, open_toq.inputs>>

\* Optional[str] = None, told apart from every text (texts hold single characters)
NoneText == <<"<None>">>

NoReport == ConsistencyReport(NoTrace, Answer(<<>>, "None"), <<>>)

\* what the call has produced: nothing yet, the report it returned, or the error raised
NoResult == [kind |-> "none", error |-> "ok", report |-> NoReport]

Raised(error) == [kind |-> "raised", error |-> error, report |-> NoReport]

Returned(report) == [kind |-> "returned", error |-> "ok", report |-> report]

----------------------------------------------------------------------------
(* The inputs *)

\* the text of node k: "Q<k>" followed by [A<c>] for every node c naming k its parent
NodeText(n, parent, k) ==
    <<"Q", Digit(k)>>
    \o Join([c \in 1..n |-> IF parent[c] = k THEN Placeholder(c) ELSE <<>>])

Ascending(n) == [i \in 1..n |-> i]

\* The trees a caller or a decomposer can hand over, well formed or not: n
\* nodes 1..n, any parent links among them, the dict filled in the key order
\* given.
TreeInput(n, parent, root_id, keys) ==
    ToQ(keys, [k \in 1..n |-> ToQNode(k, NodeText(n, parent, k), parent[k])], root_id)

\* the insertion orders of the model: ascending and descending ids
KeyOrders(n) == {Ascending(n), Reverse(Ascending(n))}

\* plan_opts: None, {"include_empty": b}, or what run_eval_3step passes:
\* {"include_empty": True, "plans_override": [plan_full, plan_none]}
PlanOpts(keys, include_empty, plans_override) ==
    [keys |-> keys, include_empty |-> include_empty, plans_override |-> plans_override]

NoPlanOpts == PlanOpts({"None"}, TRUE, <<>>)

PlanOptsInputs(t) ==
    LET non_root_ids == Sorted(Range(t.keys) \ {t.root_id}) IN
    { NoPlanOpts,
      PlanOpts({"include_empty"}, TRUE, <<>>),
      PlanOpts({"include_empty"}, FALSE, <<>>),
      PlanOpts({"include_empty", "plans_override"}, TRUE,
               <<CollapsePlan(<<>>), CollapsePlan(non_root_ids)>>) }

\* the optional oracles and the context: all left out, or all given
NoOracles == [substituter |-> "None", normalizer |-> "None", context |-> "None"]

OracleInputs ==
    { NoOracles,
      [substituter |-> "custom", normalizer |-> "given", context |-> "ctx"] }

\* A call on a tree that fails validation raises before it reads plan_opts or
\* an optional oracle: such a call is started with the defaults only.
OptionsRead(t, inputs, default) == IF validate(t) = "ok" THEN inputs ELSE {default}

\* the caller's cache: none (or empty), or one that already holds the entry of
\* the closed component of the root id
CacheInputs(t) ==
    { EmptyDict,
      Dict(<<cache_key(t.root_id, NoOpenToQ)>>,
           [k \in {cache_key(t.root_id, NoOpenToQ)} |-> <<"P">>]) }

EntryPoints == {"run_consistency_check", "run_consistency_check_from_question"}

\* a default_substituter call not in progress
NoSubst == [pc |-> "none", template |-> <<>>, child_answers |-> EmptyDict, out |-> <<>>]

\* no direct call in progress
NoDirect == [pc |-> "none"]

\* no earlier invocation
NoFirst == [kind |-> "none"]

\* the state of a call before its first step
InitCall ==
    /\ direct = NoDirect
    /\ first = NoFirst
    /\ calls = <<>>
    /\ ev = NoEval
    /\ base_trace = NoTrace
    /\ plans = <<>>
    /\ plan_i = 1
    /\ roots = <<>>
    /\ root_i = 1
    /\ open_toq_by_root = EmptyDict
    /\ collapsed_question_by_root = EmptyDict
    /\ collapsed = NoCollapsed
    /\ runs = <<>>
    /\ result = NoResult

Init ==
    /\ \E n \in 0..MaxNodes :
          \E parent \in [1..n -> {None} \cup (1..n)], root_id \in NodeIds,
             keys \in KeyOrders(n) :
              toq = TreeInput(n, parent, root_id, keys)
    /\ cache \in CacheInputs(toq)
    /\ \E po \in OptionsRead(toq, PlanOptsInputs(toq), NoPlanOpts),
          o \in OptionsRead(toq, OracleInputs, NoOracles),
          e \in EntryPoints :
          call = [entry |-> e, toq |-> toq, plan_opts |-> po,
                  substituter |-> o.substituter, normalizer |-> o.normalizer,
                  context |-> o.context, cache |-> cache,
                  collapser |-> "collapser"]
    /\ pc = IF call.entry = "run_consistency_check" THEN "validate" ELSE "decompose"
    /\ subst = NoSubst
    /\ InitCall

----------------------------------------------------------------------------
(* The steps of evaluate_toq *)

\* evaluate_toq up to its loop: the children adjacency and the postorder
\* (mark: how many oracle calls came before it)
BeginEvaluate(t, mark) ==
    [toq |-> t, order |-> postorder(t), i |-> 1,
     rendered |-> EmptyDict, answers |-> EmptyDict, mark |-> mark]

\* sub = substituter or default_substituter
SubstituterName(substituter) ==
    IF substituter # "None" THEN "custom_substituter" ELSE "default_substituter"

\* sub(template, child_ans_text)
sub(substituter, template, child_ans_text) ==
    IF SubstituterName(substituter) = "custom_substituter"
    THEN custom_substituter(template, child_ans_text)
    ELSE default_substituter(template, child_ans_text)

\* Faulty variant of ChildAnswers: every answer so far is handed on
ChildAnswers_of_all(child_ids, answers) ==
    Dict(answers.keys, [cid \in Range(answers.keys) |-> answers.val[cid].text])

\* child_ans_text = {cid: answers[cid].text for cid in child_ids}
ChildAnswers(child_ids, answers) ==
    Dict(child_ids, [cid \in Range(child_ids) |-> answers.val[cid].text])

\* the oracle calls of one iteration: the substituter for a node with
\* children, then the answerer
NodeCalls(substituter, nid, template, child_ids, child_ans_text, q, context) ==
    (IF Len(child_ids) = 0 THEN <<>>
     ELSE <<Call(SubstituterName(substituter), nid, template, child_ans_text,
                 NoOpenToQ, "None")>>)
    \o <<Call("answerer", nid, q, EmptyDict, NoOpenToQ, context)>>

\* Faulty variant of RenderQuestion: the substituter renders leaves too
RenderQuestion_leaves_too(substituter, template, child_ids, child_ans_text) ==
    sub(substituter, template, child_ans_text)

\* the rendered question of one node
RenderQuestion(substituter, template, child_ids, child_ans_text) ==
    IF Len(child_ids) = 0 THEN template
    ELSE sub(substituter, template, child_ans_text)

\* Faulty variant of AnswerNode: a question the answerer was asked before is
\* not asked again, its answer being reused
AnswerNode_answers_reused ==
    /\ pc \in {"baseline", "quotient"}
    /\ ev.i <= Len(ev.order)
    /\ LET nid            == ev.order[ev.i]
           template       == ev.toq.nodes[nid].text
           child_ids      == children(ev.toq)[nid]
           child_ans_text == ChildAnswers(child_ids, ev.answers)
           q == RenderQuestion(call.substituter, template, child_ids, child_ans_text)
           asked == \E k \in 1..Len(calls) :
                        calls[k].oracle = "answerer" /\ calls[k].text = q
       IN /\ calls' = IF asked THEN calls
                      ELSE calls \o NodeCalls(call.substituter, nid, template, child_ids,
                                              child_ans_text, q, call.context)
          /\ ev' = [ev EXCEPT !.i = @ + 1,
                              !.rendered = DictSet(@, nid, q),
                              !.answers = DictSet(@, nid, answerer(q, call.context))]
    /\ UNCHANGED <<call, toq, pc, cache, base_trace, plans, plan_i, roots, root_i,
                   open_toq_by_root, collapsed_question_by_root, collapsed, runs, result,
                   subst, direct, first>>

\* One iteration of the loop of evaluate_toq: render the node's question and ask
AnswerNode ==
    /\ pc \in {"baseline", "quotient"}
    /\ ev.i <= Len(ev.order)
    /\ LET nid            == ev.order[ev.i]
           template       == ev.toq.nodes[nid].text
           child_ids      == children(ev.toq)[nid]
           child_ans_text == ChildAnswers(child_ids, ev.answers)
           q == RenderQuestion(call.substituter, template, child_ids, child_ans_text)
       IN /\ calls' = calls \o NodeCalls(call.substituter, nid, template, child_ids,
                                         child_ans_text, q, call.context)
          /\ ev' = [ev EXCEPT !.i = @ + 1,
                              !.rendered = DictSet(@, nid, q),
                              !.answers = DictSet(@, nid, answerer(q, call.context))]
    /\ UNCHANGED <<call, toq, pc, cache, base_trace, plans, plan_i, roots, root_i,
                   open_toq_by_root, collapsed_question_by_root, collapsed, runs, result,
                   subst, direct, first>>

----------------------------------------------------------------------------
(* The steps of run_consistency_check *)

\* Faulty variant of include_empty_of: plan_opts["include_empty"] is ignored
include_empty_ignored(plan_opts) == TRUE

\* include_empty as run_consistency_check reads it from plan_opts
include_empty_of(plan_opts) ==
    IF "None" \notin plan_opts.keys /\ "include_empty" \in plan_opts.keys
    THEN plan_opts.include_empty
    ELSE TRUE

\* the plan list of run_consistency_check
plan_list(t, plan_opts) == enumerate_collapse_plans(t, include_empty_of(plan_opts))

\* toq.validate() at the head of run_consistency_check, then the baseline
\* evaluate_toq up to its loop
Validate ==
    /\ pc = "validate"
    /\ IF validate(toq) # "ok"
       THEN /\ pc' = "raised"
            /\ result' = Raised(validate(toq))
            /\ ev' = ev
       ELSE /\ pc' = "baseline"
            /\ result' = result
            /\ ev' = BeginEvaluate(toq, Len(calls))
    /\ UNCHANGED <<call, toq, cache, calls, base_trace, plans, plan_i, roots, root_i,
                   open_toq_by_root, collapsed_question_by_root, collapsed, runs,
                   subst, direct, first>>

\* Faulty variant of Decompose: only the root of the decomposer's tree is
\* handed on to run_consistency_check
Decompose_root_only ==
    /\ pc = "decompose"
    /\ calls' = Append(calls, Call("decomposer", None, <<>>, EmptyDict, NoOpenToQ,
                                   call.context))
    /\ IF validate(toq) # "ok"
       THEN pc' = "raised" /\ result' = Raised(validate(toq)) /\ toq' = toq
       ELSE /\ pc' = "validate"
            /\ result' = result
            /\ toq' = ToQ(<<toq.root_id>>,
                          [k \in {toq.root_id} |-> toq.nodes[k]], toq.root_id)
    /\ UNCHANGED <<call, cache, ev, base_trace, plans, plan_i, roots, root_i,
                   open_toq_by_root, collapsed_question_by_root, collapsed, runs,
                   subst, direct, first>>

\* run_consistency_check_from_question: the decomposer, then toq.validate()
Decompose ==
    /\ pc = "decompose"
    /\ calls' = Append(calls, Call("decomposer", None, <<>>, EmptyDict, NoOpenToQ,
                                   call.context))
    /\ IF validate(toq) # "ok"
       THEN pc' = "raised" /\ result' = Raised(validate(toq))
       ELSE pc' = "validate" /\ result' = result
    /\ UNCHANGED <<call, toq, cache, ev, base_trace, plans, plan_i, roots, root_i,
                   open_toq_by_root, collapsed_question_by_root, collapsed, runs,
                   subst, direct, first>>

\* the head of "for plan in plans" for the i-th plan: component_roots and the
\* two fresh dicts, or the end of the loop
EnterPlan(i, ps) ==
    /\ plan_i' = i
    /\ root_i' = 1
    /\ open_toq_by_root' = EmptyDict
    /\ collapsed_question_by_root' = EmptyDict
    /\ IF i > Len(ps)
       THEN pc' = "return" /\ roots' = <<>> /\ result' = result
       ELSE IF component_roots_error(toq, ps[i]) # "ok"
            THEN /\ pc' = "raised"
                 /\ roots' = <<>>
                 /\ result' = Raised(component_roots_error(toq, ps[i]))
            ELSE /\ pc' = "collapse"
                 /\ roots' = component_roots(toq, ps[i])
                 /\ result' = result

\* the baseline trace is complete: the plan list, then the first plan
FinishBaseline ==
    /\ pc = "baseline"
    /\ ev.i > Len(ev.order)
    /\ base_trace' = EvalTrace(ev.rendered, ev.answers)
    /\ plans' = plan_list(toq, call.plan_opts)
    /\ runs' = <<>>
    /\ EnterPlan(1, plans')
    /\ UNCHANGED <<call, toq, cache, calls, ev, collapsed, subst, direct, first>>

\* Faulty variant of cache_store: the collapsed question is never stored
cache_store_forgotten(c, key, cq) == c

\* cache[cache_key] = cq
cache_store(c, key, cq) == DictSet(c, key, cq)

\* Faulty variant of CollapseRoot: every component is extracted under the
\* first plan of the list instead of the current one
CollapseRoot_first_plan ==
    /\ pc = "collapse"
    /\ root_i <= Len(roots)
    /\ LET r        == roots[root_i]
           open_toq == extract_open_toq(toq, plans[1], r)
           key      == cache_key(r, open_toq)
           hit      == key \in Range(cache.keys)
           cq       == IF hit THEN cache.val[key]
                       ELSE collapse(call.collapser, open_toq, call.context)
       IN /\ open_toq_by_root' = DictSet(open_toq_by_root, r, open_toq)
          /\ calls' = IF hit THEN calls
                      ELSE Append(calls, Call("collapser", r, <<>>, EmptyDict, open_toq,
                                              call.context))
          /\ cache' = IF hit THEN cache ELSE DictSet(cache, key, cq)
          /\ collapsed_question_by_root' = DictSet(collapsed_question_by_root, r, cq)
    /\ root_i' = root_i + 1
    /\ UNCHANGED <<call, toq, pc, ev, base_trace, plans, plan_i, roots, collapsed, runs,
                   result, subst, direct, first>>

\* Faulty variant of CollapseRoot: the cache is not looked up; the collapser is
\* called for every component and its string stored
CollapseRoot_without_lookup ==
    /\ pc = "collapse"
    /\ root_i <= Len(roots)
    /\ LET r        == roots[root_i]
           open_toq == extract_open_toq(toq, plans[plan_i], r)
           key      == cache_key(r, open_toq)
           cq       == collapse(call.collapser, open_toq, call.context)
       IN /\ open_toq_by_root' = DictSet(open_toq_by_root, r, open_toq)
          /\ calls' = Append(calls, Call("collapser", r, <<>>, EmptyDict, open_toq,
                                         call.context))
          /\ cache' = cache_store(cache, key, cq)
          /\ collapsed_question_by_root' = DictSet(collapsed_question_by_root, r, cq)
    /\ root_i' = root_i + 1
    /\ UNCHANGED <<call, toq, pc, ev, base_trace, plans, plan_i, roots, collapsed, runs,
                   result, subst, direct, first>>

\* One iteration of "for r in roots": extract the component, look its key up
\* in the cache, call the collapser on a miss and store what it returns
CollapseRoot ==
    /\ pc = "collapse"
    /\ root_i <= Len(roots)
    /\ LET r        == roots[root_i]
           open_toq == extract_open_toq(toq, plans[plan_i], r)
           key      == cache_key(r, open_toq)
           hit      == key \in Range(cache.keys)
           cq       == IF hit THEN cache.val[key]
                       ELSE collapse(call.collapser, open_toq, call.context)
       IN /\ open_toq_by_root' = DictSet(open_toq_by_root, r, open_toq)
          /\ calls' = IF hit THEN calls
                      ELSE Append(calls, Call("collapser", r, <<>>, EmptyDict, open_toq,
                                              call.context))
          /\ cache' = IF hit THEN cache ELSE cache_store(cache, key, cq)
          /\ collapsed_question_by_root' = DictSet(collapsed_question_by_root, r, cq)
    /\ root_i' = root_i + 1
    /\ UNCHANGED <<call, toq, pc, ev, base_trace, plans, plan_i, roots, collapsed, runs,
                   result, subst, direct, first>>

\* Every component is collapsed: apply_collapse_plan, the provenance, and the
\* quotient's evaluate_toq up to its loop
ApplyPlan ==
    /\ pc = "collapse"
    /\ root_i > Len(roots)
    /\ LET err == apply_collapse_plan_error(toq, plans[plan_i], collapsed_question_by_root)
           q   == [apply_collapse_plan(toq, plans[plan_i], collapsed_question_by_root)
                     EXCEPT !.open_toq_by_root = open_toq_by_root]
       IN IF err # "ok"
          THEN pc' = "raised" /\ result' = Raised(err) /\ collapsed' = collapsed /\ ev' = ev
          ELSE IF validate(q.toq) # "ok"
               THEN /\ pc' = "raised"
                    /\ result' = Raised(validate(q.toq))
                    /\ collapsed' = q
                    /\ ev' = ev
               ELSE /\ pc' = "quotient"
                    /\ result' = result
                    /\ collapsed' = q
                    /\ ev' = BeginEvaluate(q.toq, Len(calls))
    /\ UNCHANGED <<call, toq, cache, calls, base_trace, plans, plan_i, roots, root_i,
                   open_toq_by_root, collapsed_question_by_root, runs, subst, direct, first>>

\* Faulty variant of root_answer_of: the answer of the first node evaluated
root_answer_of_first(trace, coll) == trace.answer.val[trace.answer.keys[1]]

\* root_answer = trace.answer[collapsed.toq.root_id]
root_answer_of(trace, coll) == trace.answer.val[coll.toq.root_id]

\* The quotient trace is complete: the root answer, the normalizer if one was
\* given, runs.append, and the next plan
RecordRun ==
    /\ pc = "quotient"
    /\ ev.i > Len(ev.order)
    /\ LET trace       == EvalTrace(ev.rendered, ev.answers)
           root_answer == root_answer_of(trace, collapsed)
           normalized  == IF call.normalizer # "None" THEN normalizer(root_answer.text)
                          ELSE NoneText
       IN /\ calls' = IF call.normalizer # "None"
                      THEN Append(calls, Call("normalizer", None, root_answer.text,
                                              EmptyDict, NoOpenToQ, "None"))
                      ELSE calls
          /\ runs' = Append(runs, RunRecord(plans[plan_i], collapsed, trace, root_answer,
                                            normalized))
    /\ EnterPlan(plan_i + 1, plans)
    /\ UNCHANGED <<call, toq, cache, ev, base_trace, plans, collapsed, subst, direct, first>>

\* return ConsistencyReport(...)
Return ==
    /\ pc = "return"
    /\ pc' = "done"
    /\ result' = Returned(ConsistencyReport(base_trace,
                                            base_trace.answer.val[toq.root_id], runs))
    /\ UNCHANGED <<call, toq, cache, calls, ev, base_trace, plans, plan_i, roots, root_i,
                   open_toq_by_root, collapsed_question_by_root, collapsed, runs,
                   subst, direct, first>>

Next ==
    \/ Decompose
    \/ Validate
    \/ AnswerNode
    \/ FinishBaseline
    \/ CollapseRoot
    \/ ApplyPlan
    \/ RecordRun
    \/ Return

Spec == Init /\ [][Next]_vars

----------------------------------------------------------------------------
(* Two invocations on the same arguments, each with a cache of its own: the
   first through either entry point, the second through run_consistency_check
   on the tree the decomposer returns *)

\* plan_opts of the pair: left out, or {"include_empty": False}
PairPlanOpts == {NoPlanOpts, PlanOpts({"include_empty"}, FALSE, <<>>)}

InitPair ==
    /\ \E n \in 0..MaxNodes :
          \E parent \in [1..n -> {None} \cup (1..n)], root_id \in NodeIds,
             keys \in KeyOrders(n) :
              toq = TreeInput(n, parent, root_id, keys)
    /\ cache = EmptyDict
    /\ \E po \in OptionsRead(toq, PairPlanOpts, NoPlanOpts),
          o \in OptionsRead(toq, OracleInputs, NoOracles),
          e \in EntryPoints :
          call = [entry |-> e, toq |-> toq, plan_opts |-> po,
                  substituter |-> o.substituter, normalizer |-> o.normalizer,
                  context |-> o.context, cache |-> cache,
                  collapser |-> "collapser"]
    /\ pc = IF call.entry = "run_consistency_check" THEN "validate" ELSE "decompose"
    /\ subst = NoSubst
    /\ InitCall

\* what an invocation leaves behind
Outcome(entry, res, cs, c, ps) ==
    [kind |-> "done", entry |-> entry, result |-> res, calls |-> cs, cache |-> c,
     plans |-> ps]

\* Faulty variant of InvokeAgain: the second invocation is handed the cache the
\* first one filled
InvokeAgain_same_cache ==
    /\ pc \in {"done", "raised"}
    /\ first = NoFirst
    /\ first' = Outcome(call.entry, result, calls, cache, plans)
    /\ call' = [call EXCEPT !.entry = "run_consistency_check"]
    /\ toq' = call.toq
    /\ cache' = cache
    /\ pc' = "validate"
    /\ calls' = <<>>
    /\ ev' = NoEval
    /\ base_trace' = NoTrace
    /\ plans' = <<>>
    /\ plan_i' = 1
    /\ roots' = <<>>
    /\ root_i' = 1
    /\ open_toq_by_root' = EmptyDict
    /\ collapsed_question_by_root' = EmptyDict
    /\ collapsed' = NoCollapsed
    /\ runs' = <<>>
    /\ result' = NoResult
    /\ UNCHANGED <<subst, direct>>

\* The first invocation is over: its outcome is kept, and
\* run_consistency_check is invoked on the same tree and arguments without a
\* cache, so that it makes its own ("if cache is None: cache = {}")
InvokeAgain ==
    /\ pc \in {"done", "raised"}
    /\ first = NoFirst
    /\ first' = Outcome(call.entry, result, calls, cache, plans)
    /\ call' = [call EXCEPT !.entry = "run_consistency_check"]
    /\ toq' = call.toq
    /\ cache' = EmptyDict
    /\ pc' = "validate"
    /\ calls' = <<>>
    /\ ev' = NoEval
    /\ base_trace' = NoTrace
    /\ plans' = <<>>
    /\ plan_i' = 1
    /\ roots' = <<>>
    /\ root_i' = 1
    /\ open_toq_by_root' = EmptyDict
    /\ collapsed_question_by_root' = EmptyDict
    /\ collapsed' = NoCollapsed
    /\ runs' = <<>>
    /\ result' = NoResult
    /\ UNCHANGED <<subst, direct>>

NextPair ==
    \/ Decompose
    \/ Validate
    \/ AnswerNode
    \/ FinishBaseline
    \/ CollapseRoot
    \/ ApplyPlan
    \/ RecordRun
    \/ Return
    \/ InvokeAgain

SpecPair == InitPair /\ [][NextPair]_vars

----------------------------------------------------------------------------
(* ToQ.validate called on its own, on any tree over the node ids *)

\* Trees as any caller can build them: n nodes under the keys 1..n, the id of
\* a node its key, or another id when the key is in wrong; its parent None or
\* any id (absent from the tree when above n).
ValidateInput(n, wrong, parent, root_id, keys) ==
    ToQ(keys,
        [k \in 1..n |-> ToQNode(IF k \in wrong THEN (k % MaxNodes) + 1 ELSE k,
                                NodeText(n, parent, k), parent[k])],
        root_id)

InitValidate ==
    /\ \E n \in 0..MaxNodes :
          \E wrong \in SUBSET (1..n), parent \in [1..n -> {None} \cup NodeIds],
             root_id \in NodeIds, keys \in KeyOrders(n) :
              toq = ValidateInput(n, wrong, parent, root_id, keys)
    /\ cache = EmptyDict
    /\ call = [entry |-> "validate", toq |-> toq, plan_opts |-> NoPlanOpts,
               substituter |-> "None", normalizer |-> "None", context |-> "None",
               cache |-> cache,
               collapser |-> "collapser"]
    /\ pc = "validate_only"
    /\ subst = NoSubst
    /\ InitCall

\* toq.validate(): returns, or raises the ValueError
ValidateOnly ==
    /\ pc = "validate_only"
    /\ IF validate(toq) # "ok"
       THEN pc' = "raised" /\ result' = Raised(validate(toq))
       ELSE pc' = "validated" /\ result' = result
    /\ UNCHANGED <<call, toq, cache, calls, ev, base_trace, plans, plan_i, roots, root_i,
                   open_toq_by_root, collapsed_question_by_root, collapsed, runs,
                   subst, direct, first>>

NextValidate == ValidateOnly

SpecValidate == InitValidate /\ [][NextValidate]_vars

----------------------------------------------------------------------------
(* default_substituter called on its own *)

\* Longest template, counted in parts (a plain character or a placeholder)
MaxParts == 2

\* The children a direct call names
SubstChildIds == {1, 2}

Perms(S) == {f \in [1..Cardinality(S) -> S] : \A i, j \in 1..Cardinality(S) :
                                                 f[i] = f[j] => i = j}

\* The parts of a template, and the answer texts: a plain character or a
\* placeholder of a child
TemplateParts == {<<"x">>} \cup {Placeholder(c) : c \in SubstChildIds}

AnswerTexts == {<<"y">>} \cup {Placeholder(c) : c \in SubstChildIds}

Templates == {Join(parts) : parts \in UNION {[1..n -> TemplateParts] : n \in 0..MaxParts}}

\* child_answers: any non-empty set of children, in any insertion order
ChildAnswerInputs ==
    UNION {{Dict(keys, val) : keys \in Perms(S), val \in [S -> AnswerTexts]} :
             S \in (SUBSET SubstChildIds) \ {{}}}

InitSubst ==
    /\ subst \in {[pc |-> "call", template |-> t, child_answers |-> m, out |-> <<>>] :
                    t \in Templates, m \in ChildAnswerInputs}
    /\ toq = ToQ(<<>>, <<>>, None)
    /\ cache = EmptyDict
    /\ call = [entry |-> "default_substituter", toq |-> toq, plan_opts |-> NoPlanOpts,
               substituter |-> "None", normalizer |-> "None", context |-> "None",
               cache |-> cache,
               collapser |-> "collapser"]
    /\ pc = "substitute_only"
    /\ InitCall

\* default_substituter(template, child_answers)
Substitute ==
    /\ subst.pc = "call"
    /\ subst' = [subst EXCEPT !.pc = "returned",
                              !.out = default_substituter(subst.template,
                                                          subst.child_answers)]
    /\ UNCHANGED <<call, toq, pc, cache, calls, ev, base_trace, plans, plan_i, roots,
                   root_i, open_toq_by_root, collapsed_question_by_root, collapsed, runs,
                   result, direct, first>>

NextSubst == Substitute

SpecSubst == InitSubst /\ [][NextSubst]_vars

----------------------------------------------------------------------------
(* apply_collapse_plan called on its own, as tests/test_transforms.py does *)

\* the ids a plan or a mapping of collapsed questions can name: those of the
\* largest tree and one id that is in no tree
PlanIds == 1..(MaxNodes + 1)

\* a mapping of collapsed questions with the keys K: "C<r>" for root r
CollapsedQuestions(K) == Dict(Sorted(K), [r \in K |-> <<"C", Digit(r)>>])

InitApply ==
    /\ \E n \in 1..MaxNodes :
          \E parent \in [1..n -> {None} \cup (1..n)], root_id \in 1..n :
              toq = TreeInput(n, parent, root_id, Ascending(n))
    /\ validate(toq) = "ok"
    /\ \E cut \in SUBSET PlanIds : plans = <<CollapsePlan(Sorted(cut))>>
    /\ \E K \in SUBSET PlanIds : collapsed_question_by_root = CollapsedQuestions(K)
    /\ cache = EmptyDict
    /\ call = [entry |-> "apply_collapse_plan", toq |-> toq, plan_opts |-> NoPlanOpts,
               substituter |-> "None", normalizer |-> "None", context |-> "None",
               cache |-> cache,
               collapser |-> "collapser"]
    /\ pc = "apply_only"
    /\ subst = NoSubst
    /\ direct = NoDirect
    /\ first = NoFirst
    /\ calls = <<>>
    /\ ev = NoEval
    /\ base_trace = NoTrace
    /\ plan_i = 1
    /\ roots = <<>>
    /\ root_i = 1
    /\ open_toq_by_root = EmptyDict
    /\ collapsed = NoCollapsed
    /\ runs = <<>>
    /\ result = NoResult

\* apply_collapse_plan(toq, plan, collapsed_question_by_root): returns the
\* CollapsedToQ, or raises the ValueError
Apply ==
    /\ pc = "apply_only"
    /\ LET err == apply_collapse_plan_error(toq, plans[1], collapsed_question_by_root) IN
       IF err # "ok"
       THEN pc' = "raised" /\ result' = Raised(err) /\ collapsed' = collapsed
       ELSE /\ pc' = "applied"
            /\ result' = result
            /\ collapsed' = apply_collapse_plan(toq, plans[1], collapsed_question_by_root)
    /\ UNCHANGED <<call, toq, cache, calls, ev, base_trace, plans, plan_i, roots, root_i,
                   open_toq_by_root, collapsed_question_by_root, runs, subst, direct,
                   first>>

NextApply == Apply

SpecApply == InitApply /\ [][NextApply]_vars

----------------------------------------------------------------------------
(* Successive invocations of run_consistency_check handed one cache object *)

\* the valid trees of the model, their dicts filled in ascending id order
ValidTrees ==
    {t \in UNION {{TreeInput(n, parent, root_id, Ascending(n)) :
                      parent \in [1..n -> {None} \cup (1..n)], root_id \in 1..n} :
                  n \in 1..MaxNodes} :
        validate(t) = "ok"}

\* the caller invokes run_consistency_check on a first tree with a dict of
\* theirs, empty or not, and one of the two collapsers
InitReuse ==
    /\ toq \in ValidTrees
    /\ cache \in CacheInputs(toq)
    /\ \E c \in {"collapser", "TinyCollapser"} :
          call = [entry |-> "run_consistency_check", toq |-> toq,
                  plan_opts |-> NoPlanOpts, substituter |-> "None",
                  normalizer |-> "None", context |-> "None", cache |-> cache,
                  collapser |-> c]
    /\ pc = "validate"
    /\ subst = NoSubst
    /\ InitCall

\* The first invocation has returned: the caller invokes run_consistency_check
\* on another tree and passes the same dict, which holds what the first
\* invocation stored ("if cache is None" is false: the dict is used as it is)
InvokeOnNextTree ==
    /\ pc = "done"
    /\ first = NoFirst
    /\ first' = Outcome(call.entry, result, calls, cache, plans)
    /\ \E t \in ValidTrees \ {call.toq} :
          /\ toq' = t
          /\ call' = [call EXCEPT !.toq = t, !.cache = cache]
    /\ cache' = cache
    /\ pc' = "validate"
    /\ calls' = <<>>
    /\ ev' = NoEval
    /\ base_trace' = NoTrace
    /\ plans' = <<>>
    /\ plan_i' = 1
    /\ roots' = <<>>
    /\ root_i' = 1
    /\ open_toq_by_root' = EmptyDict
    /\ collapsed_question_by_root' = EmptyDict
    /\ collapsed' = NoCollapsed
    /\ runs' = <<>>
    /\ result' = NoResult
    /\ UNCHANGED <<subst, direct>>

NextReuse ==
    \/ Validate
    \/ AnswerNode
    \/ FinishBaseline
    \/ CollapseRoot
    \/ ApplyPlan
    \/ RecordRun
    \/ Return
    \/ InvokeOnNextTree

SpecReuse == InitReuse /\ [][NextReuse]_vars

----------------------------------------------------------------------------
(* run_consistency_check with oracles that can raise: nothing in it catches,
   so the exception of a callback leaves through lines 125 or 147 *)

\* Faulty variant of CollapserRaises: the key is stored before the call
CollapserRaises_key_stored ==
    /\ pc = "collapse"
    /\ root_i <= Len(roots)
    /\ LET r        == roots[root_i]
           open_toq == extract_open_toq(toq, plans[plan_i], r)
           key      == cache_key(r, open_toq)
       IN /\ key \notin Range(cache.keys)
          /\ open_toq_by_root' = DictSet(open_toq_by_root, r, open_toq)
          /\ calls' = Append(calls, Call("collapser", r, <<>>, EmptyDict, open_toq,
                                         call.context))
          /\ cache' = DictSet(cache, key, <<>>)
    /\ pc' = "raised"
    /\ result' = Raised("collapser raised")
    /\ UNCHANGED <<call, toq, ev, base_trace, plans, plan_i, roots, root_i,
                   collapsed_question_by_root, collapsed, runs, subst, direct, first>>

\* "cq = collapser(open_toq, context=context)" raises: the assignments after
\* it are not reached and the exception leaves run_consistency_check
CollapserRaises ==
    /\ pc = "collapse"
    /\ root_i <= Len(roots)
    /\ LET r        == roots[root_i]
           open_toq == extract_open_toq(toq, plans[plan_i], r)
           key      == cache_key(r, open_toq)
       IN /\ key \notin Range(cache.keys)
          /\ open_toq_by_root' = DictSet(open_toq_by_root, r, open_toq)
          /\ calls' = Append(calls, Call("collapser", r, <<>>, EmptyDict, open_toq,
                                         call.context))
    /\ pc' = "raised"
    /\ result' = Raised("collapser raised")
    /\ UNCHANGED <<call, toq, cache, ev, base_trace, plans, plan_i, roots, root_i,
                   collapsed_question_by_root, collapsed, runs, subst, direct, first>>

\* the answerer raises in evaluate_toq, for the baseline or for a quotient:
\* the exception leaves evaluate_toq and run_consistency_check
AnswererRaises ==
    /\ pc \in {"baseline", "quotient"}
    /\ ev.i <= Len(ev.order)
    /\ LET nid            == ev.order[ev.i]
           template       == ev.toq.nodes[nid].text
           child_ids      == children(ev.toq)[nid]
           child_ans_text == ChildAnswers(child_ids, ev.answers)
           q == RenderQuestion(call.substituter, template, child_ids, child_ans_text)
       IN calls' = calls \o NodeCalls(call.substituter, nid, template, child_ids,
                                      child_ans_text, q, call.context)
    /\ pc' = "raised"
    /\ result' = Raised("answerer raised")
    /\ UNCHANGED <<call, toq, cache, ev, base_trace, plans, plan_i, roots, root_i,
                   open_toq_by_root, collapsed_question_by_root, collapsed, runs,
                   subst, direct, first>>

NextFail ==
    \/ Validate
    \/ AnswerNode
    \/ FinishBaseline
    \/ CollapseRoot
    \/ ApplyPlan
    \/ RecordRun
    \/ Return
    \/ CollapserRaises
    \/ AnswererRaises

SpecFail == InitReuse /\ [][NextFail]_vars

----------------------------------------------------------------------------
(* Two invocations of run_consistency_check on one tree, run by two threads
   that share one cache dict. The baseline and the quotient evaluations touch
   nothing shared; the steps told apart are the ones around the cache:
   "cache_key in cache" (line 122), the collapser call (line 125) and
   "cache[cache_key] = cq" (line 126). Each thread is followed through the
   first MaxThreadPlans plans of the list. *)

MaxThreadPlans == 2

\* where a thread stands in "for plan in plans: for r in roots": the root, its
\* OpenToQ, its cache key, and the thread once collapsed_question_by_root[r]
\* is set to cq
ThreadAt(th) ==
    LET rs       == component_roots(toq, plans[th.plan_i])
        r        == rs[th.root_i]
        open_toq == extract_open_toq(toq, plans[th.plan_i], r)
    IN [r |-> r, open_toq |-> open_toq, key |-> cache_key(r, open_toq),
        next_pc |-> IF th.root_i + 1 > Len(rs) THEN "apply" ELSE "lookup"]

\* both threads at the head of "for plan in plans", their baselines done, on
\* a valid tree whose nodes are numbered parents first from root 1
InitThreads ==
    /\ toq \in {t \in ValidTrees :
                   \A k \in Range(t.keys) : t.nodes[k].parent < k}
    /\ cache = EmptyDict
    /\ \E po \in PairPlanOpts :
          call = [entry |-> "run_consistency_check", toq |-> toq, plan_opts |-> po,
                  substituter |-> "None", normalizer |-> "None", context |-> "None",
                  cache |-> cache,
                  collapser |-> "collapser"]
    /\ pc = "threads"
    /\ plans = plan_list(toq, call.plan_opts)
    /\ direct = [pc |-> "threads",
                 th |-> [i \in 1..2 |->
                           [pc |-> IF plans = <<>> THEN "done" ELSE "lookup",
                            plan_i |-> 1, root_i |-> 1,
                            collapsed_question_by_root |-> EmptyDict,
                            calls |-> <<>>, runs |-> <<>>]]]
    /\ subst = NoSubst
    /\ first = NoFirst
    /\ calls = <<>>
    /\ ev = NoEval
    /\ base_trace = NoTrace
    /\ plan_i = 1
    /\ roots = <<>>
    /\ root_i = 1
    /\ open_toq_by_root = EmptyDict
    /\ collapsed_question_by_root = EmptyDict
    /\ collapsed = NoCollapsed
    /\ runs = <<>>
    /\ result = NoResult

\* "if cache_key in cache: cq = cache[cache_key]" in thread i: on a hit the
\* entry is read and the iteration is over, on a miss the thread goes on to
\* call the collapser
ThreadLookup(i) ==
    /\ direct.pc = "threads"
    /\ direct.th[i].pc = "lookup"
    /\ LET th == direct.th[i]
           at == ThreadAt(th)
       IN direct' = [direct EXCEPT !.th[i] =
             IF at.key \in Range(cache.keys)
             THEN [th EXCEPT !.collapsed_question_by_root =
                                 DictSet(@, at.r, cache.val[at.key]),
                             !.root_i = @ + 1,
                             !.pc = at.next_pc]
             ELSE [th EXCEPT !.pc = "call"]]
    /\ UNCHANGED <<call, toq, pc, cache, calls, ev, base_trace, plans, plan_i, roots,
                   root_i, open_toq_by_root, collapsed_question_by_root, collapsed, runs,
                   result, subst, first>>

\* "cq = collapser(open_toq, context=context)" in thread i
ThreadCollapse(i) ==
    /\ direct.pc = "threads"
    /\ direct.th[i].pc = "call"
    /\ LET th == direct.th[i]
           at == ThreadAt(th)
       IN direct' = [direct EXCEPT !.th[i] =
             [th EXCEPT !.calls = Append(@, Call("collapser", at.r, <<>>, EmptyDict,
                                                  at.open_toq, call.context)),
                        !.pc = "store"]]
    /\ UNCHANGED <<call, toq, pc, cache, calls, ev, base_trace, plans, plan_i, roots,
                   root_i, open_toq_by_root, collapsed_question_by_root, collapsed, runs,
                   result, subst, first>>

\* "cache[cache_key] = cq; collapsed_question_by_root[r] = cq" in thread i
ThreadStore(i) ==
    /\ direct.pc = "threads"
    /\ direct.th[i].pc = "store"
    /\ LET th == direct.th[i]
           at == ThreadAt(th)
           cq == collapse(call.collapser, at.open_toq, call.context)
       IN /\ cache' = cache_store(cache, at.key, cq)
          /\ direct' = [direct EXCEPT !.th[i] =
                [th EXCEPT !.collapsed_question_by_root = DictSet(@, at.r, cq),
                           !.root_i = @ + 1,
                           !.pc = at.next_pc]]
    /\ UNCHANGED <<call, toq, pc, calls, ev, base_trace, plans, plan_i, roots,
                   root_i, open_toq_by_root, collapsed_question_by_root, collapsed, runs,
                   result, subst, first>>

\* the rest of the plan's iteration in thread i (apply_collapse_plan, the
\* quotient's evaluation, runs.append), which reads and writes nothing shared,
\* then the next plan or the return
ThreadApply(i) ==
    /\ direct.pc = "threads"
    /\ direct.th[i].pc = "apply"
    /\ LET th == direct.th[i]
           q  == apply_collapse_plan(toq, plans[th.plan_i], th.collapsed_question_by_root)
       IN direct' = [direct EXCEPT !.th[i] =
             [th EXCEPT !.runs = Append(@, q),
                        !.plan_i = @ + 1,
                        !.root_i = 1,
                        !.collapsed_question_by_root = EmptyDict,
                        !.pc = IF th.plan_i + 1 > Len(plans) \/ th.plan_i + 1 > MaxThreadPlans
                               THEN "done" ELSE "lookup"]]
    /\ UNCHANGED <<call, toq, pc, cache, calls, ev, base_trace, plans, plan_i, roots,
                   root_i, open_toq_by_root, collapsed_question_by_root, collapsed, runs,
                   result, subst, first>>

NextThreads ==
    \/ \E i \in 1..2 : ThreadLookup(i)
    \/ \E i \in 1..2 : ThreadCollapse(i)
    \/ \E i \in 1..2 : ThreadStore(i)
    \/ \E i \in 1..2 : ThreadApply(i)

SpecThreads == InitThreads /\ [][NextThreads]_vars

(* core/serialization.py *)

DigitChars == {Digit(d) : d \in 0..9}

\* the decimal digits of a natural number
RECURSIVE Decimal(_)
Decimal(n) == IF n < 10 THEN <<Digit(n)>> ELSE Decimal(n \div 10) \o <<Digit(n % 10)>>

\* str(nid) for an int
StrOfInt(n) == IF n < 0 THEN <<"-">> \o Decimal(0 - n) ELSE Decimal(n)

\* s.strip() of blanks
RECURSIVE Strip(_)
Strip(s) ==
    IF s = <<>> THEN s
    ELSE IF Head(s) = " " THEN Strip(Tail(s))
    ELSE IF s[Len(s)] = " " THEN Strip(SubSeq(s, 1, Len(s) - 1))
    ELSE s

\* the value of a sequence of decimal digits
RECURSIVE DigitsValue(_)
DigitsValue(ds) ==
    IF ds = <<>> THEN 0
    ELSE DigitsValue(SubSeq(ds, 1, Len(ds) - 1)) * 10
         + (CHOOSE d \in 0..9 : Digit(d) = ds[Len(ds)])

\* int(k) for a str k: blanks around, an optional sign, then digits (leading
\* zeros allowed); ok is false where int raises.  Digit separators are left
\* out: no key of the model holds one.
IntOfStr(k) ==
    LET body   == Strip(k)
        signed == body # <<>> /\ Head(body) \in {"+", "-"}
        digits == IF signed THEN Tail(body) ELSE body
        ok     == digits # <<>> /\ \A i \in 1..Len(digits) : digits[i] \in DigitChars
    IN [ok |-> ok,
        value |-> IF ~ok THEN 0
                  ELSE IF signed /\ Head(body) = "-" THEN 0 - DigitsValue(digits)
                  ELSE DigitsValue(digits)]

\* a JSON node entry: a mapping with some of the fields id, text, parent, or
\* a value that is no mapping
JsonEntry(kind, fields, id, text, parent) ==
    [kind |-> kind, fields |-> fields, id |-> id, text |-> text, parent |-> parent]

\* a JSON-like object: some of the fields root_id and nodes; nodes a mapping
\* (its keys in order, entry by key) or a value that is no mapping
JsonObject(fields, root_id, nodes_kind, nodes) ==
    [fields |-> fields, root_id |-> root_id, nodes_kind |-> nodes_kind, nodes |-> nodes]

NoJson == JsonObject({}, None, "none", EmptyDict)

\* Faulty variant of toq_to_json: the parent of a node is not written
toq_to_json_without_parent(t) ==
    LET keys == [i \in 1..Len(t.keys) |-> StrOfInt(t.keys[i])] IN
    JsonObject({"root_id", "nodes"}, t.root_id, "mapping",
               Dict(keys,
                    [k \in Range(keys) |->
                        LET node == t.nodes[CHOOSE nid \in Range(t.keys) : StrOfInt(nid) = k]
                        IN JsonEntry("mapping", {"id", "text"}, node.id, node.text, None)]))

\* toq_to_json(toq)
toq_to_json(t) ==
    LET keys == [i \in 1..Len(t.keys) |-> StrOfInt(t.keys[i])] IN
    JsonObject({"root_id", "nodes"}, t.root_id, "mapping",
               Dict(keys,
                    [k \in Range(keys) |->
                        LET node == t.nodes[CHOOSE nid \in Range(t.keys) : StrOfInt(nid) = k]
                        IN JsonEntry("mapping", {"id", "text", "parent"},
                                     node.id, node.text, node.parent)]))

NoToQ == ToQ(<<>>, <<>>, None)

\* what toq_from_json produces: the tree it returns or the ValueError
JsonRaised(error) == [kind |-> "raised", error |-> error, toq |-> NoToQ]

JsonReturned(t) == [kind |-> "returned", error |-> "ok", toq |-> t]

\* "for k, v in nodes_raw.items()" from the i-th key on: the error of the
\* first entry that raises, else the nodes dict
RECURSIVE FromJsonLoop(_, _, _)
FromJsonLoop(nodes_raw, i, nodes) ==
    IF i > Len(nodes_raw.keys) THEN [error |-> "ok", nodes |-> nodes]
    ELSE LET k   == nodes_raw.keys[i]
             v   == nodes_raw.val[k]
             nid == IntOfStr(k)
         IN IF ~nid.ok THEN [error |-> "Invalid node id key", nodes |-> nodes]
            ELSE IF v.kind # "mapping" THEN [error |-> "Invalid node entry", nodes |-> nodes]
            ELSE IF "id" \notin v.fields \/ "text" \notin v.fields
                 THEN [error |-> "Missing field", nodes |-> nodes]
            ELSE FromJsonLoop(nodes_raw, i + 1,
                              DictSet(nodes, nid.value,
                                      ToQNode(v.id, v.text,
                                              IF "parent" \in v.fields THEN v.parent
                                              ELSE None)))

\* Faulty variant of toq_from_json: the tree is returned without toq.validate()
toq_from_json_unvalidated(obj) ==
    IF "root_id" \notin obj.fields \/ "nodes" \notin obj.fields
    THEN JsonRaised("missing root_id or nodes")
    ELSE IF obj.nodes_kind # "mapping" THEN JsonRaised("nodes must be a mapping")
    ELSE LET loop == FromJsonLoop(obj.nodes, 1, EmptyDict) IN
         IF loop.error # "ok" THEN JsonRaised(loop.error)
         ELSE JsonReturned(ToQ(loop.nodes.keys, loop.nodes.val, obj.root_id))

\* toq_from_json(obj)
toq_from_json(obj) ==
    IF "root_id" \notin obj.fields \/ "nodes" \notin obj.fields
    THEN JsonRaised("missing root_id or nodes")
    ELSE IF obj.nodes_kind # "mapping" THEN JsonRaised("nodes must be a mapping")
    ELSE LET loop == FromJsonLoop(obj.nodes, 1, EmptyDict)
             t    == ToQ(loop.nodes.keys, loop.nodes.val, obj.root_id)
         IN IF loop.error # "ok" THEN JsonRaised(loop.error)
            ELSE IF validate(t) # "ok" THEN JsonRaised(validate(t))
            ELSE JsonReturned(t)

\* Longest nodes mapping of a JSON object handed to toq_from_json
MaxJsonKeys == 2

\* what the ids of a tree to serialize are shifted by: none, or into two digits
JsonIdOffsets == {0, 9}

\* a tree to serialize: TreeInput with every id shifted by off
JsonTree(n, parent, root_id, keys, off) ==
    ToQ([i \in 1..n |-> keys[i] + off],
        [id \in {k + off : k \in 1..n} |->
            ToQNode(id, NodeText(n, parent, id - off),
                    IF parent[id - off] = None THEN None ELSE parent[id - off] + off)],
        root_id + off)

\* the keys of a JSON nodes mapping: ids as str writes them, an id with a
\* leading zero or a blank, and a key that is no integer
JsonKeyStrings == {<<"1">>, <<"2">>, <<"0", "1">>, <<" ", "2">>, <<"x">>}

JsonIds == {1, 2}

\* the node entries: every field present, or one field missing, or no mapping
JsonEntries ==
    {JsonEntry("mapping", {"id", "text", "parent"}, id, <<"Q">>, parent) :
        id \in JsonIds, parent \in {None} \cup JsonIds}
    \cup {JsonEntry("mapping", {"id", "text"}, id, <<"Q">>, None) : id \in JsonIds}
    \cup {JsonEntry("mapping", {"text", "parent"}, None, <<"Q">>, None),
          JsonEntry("mapping", {"id", "parent"}, 1, <<>>, None),
          JsonEntry("other", {}, None, <<>>, None)}

JsonShapes == {"complete", "no root_id", "no nodes", "nodes no mapping"}

\* the object of one shape with the given root id, keys and entries
JsonInput(shape, root_id, keys, entries) ==
    JsonObject(CASE shape = "no root_id" -> {"nodes"}
                 [] shape = "no nodes" -> {"root_id"}
                 [] OTHER -> {"root_id", "nodes"},
               IF shape = "no root_id" THEN None ELSE root_id,
               CASE shape = "no nodes" -> "none"
                 [] shape = "nodes no mapping" -> "list"
                 [] OTHER -> "mapping",
               IF shape \in {"no nodes", "nodes no mapping"} THEN EmptyDict
               ELSE Dict(keys, [k \in Range(keys) |->
                                   entries[CHOOSE i \in 1..Len(keys) : keys[i] = k]]))

\* a serialization call not yet made
JsonCall(pc_, origin, obj) ==
    [pc |-> pc_, origin |-> origin, obj |-> obj,
     out |-> [kind |-> "none", error |-> "ok", toq |-> NoToQ]]

InitJson ==
    /\ \/ /\ \E n \in 1..MaxNodes :
                \E parent \in [1..n -> {None} \cup (1..n)], root_id \in 1..n,
                   keys \in KeyOrders(n), off \in JsonIdOffsets :
                    toq = JsonTree(n, parent, root_id, keys, off)
          /\ validate(toq) = "ok"
          /\ direct = JsonCall("to_json", "tree", NoJson)
       \/ /\ toq = NoToQ
          /\ \E m \in 0..MaxJsonKeys :
                \E keys \in [1..m -> JsonKeyStrings], entries \in [1..m -> JsonEntries],
                   root_id \in JsonIds, shape \in JsonShapes :
                    /\ \A i, j \in 1..m : keys[i] = keys[j] => i = j
                    /\ shape # "complete" => m <= 1
                    /\ direct = JsonCall("from_json", "object",
                                         JsonInput(shape, root_id, keys, entries))
    /\ cache = EmptyDict
    /\ call = [entry |-> "serialization", toq |-> toq, plan_opts |-> NoPlanOpts,
               substituter |-> "None", normalizer |-> "None", context |-> "None",
               cache |-> cache,
               collapser |-> "collapser"]
    /\ pc = "json_only"
    /\ subst = NoSubst
    /\ first = NoFirst
    /\ calls = <<>>
    /\ ev = NoEval
    /\ base_trace = NoTrace
    /\ plans = <<>>
    /\ plan_i = 1
    /\ roots = <<>>
    /\ root_i = 1
    /\ open_toq_by_root = EmptyDict
    /\ collapsed_question_by_root = EmptyDict
    /\ collapsed = NoCollapsed
    /\ runs = <<>>
    /\ result = NoResult

\* obj = toq_to_json(toq)
ToJson ==
    /\ direct.pc = "to_json"
    /\ direct' = [direct EXCEPT !.pc = "from_json", !.obj = toq_to_json(toq)]
    /\ UNCHANGED <<call, toq, pc, cache, calls, ev, base_trace, plans, plan_i, roots,
                   root_i, open_toq_by_root, collapsed_question_by_root, collapsed, runs,
                   result, subst, first>>

\* toq_from_json(obj): returns the tree, or raises the ValueError
FromJson ==
    /\ direct.pc = "from_json"
    /\ LET out == toq_from_json(direct.obj) IN
       direct' = [direct EXCEPT !.pc = out.kind, !.out = out]
    /\ UNCHANGED <<call, toq, pc, cache, calls, ev, base_trace, plans, plan_i, roots,
                   root_i, open_toq_by_root, collapsed_question_by_root, collapsed, runs,
                   result, subst, first>>

NextJson ==
    \/ ToJson
    \/ FromJson

SpecJson == InitJson /\ [][NextJson]_vars

----------------------------------------------------------------------------
(* core/metrics.py, called on a fabricated report as tests/test_metrics.py does *)

\* Longest report handed to the metrics
MaxRuns == 3

\* FakeRun(raw, norm, cut_edges) of the test: the fields the metrics read
FakeRun(raw, norm, cut_edges) ==
    [root_answer |-> Answer(raw, "None"), normalized_root |-> norm,
     plan |-> CollapsePlan(cut_edges)]

\* the raw root answers of the test with their normalized forms
FakeAnswers ==
    { <<<<"Y", "E", "S">>, <<"y", "e", "s">>>>,
      <<<<"Y", "e", "s", " ">>, <<"y", "e", "s">>>>,
      <<<<"N", "O">>, <<"n", "o">>>> }

\* the text of a run the metrics select
selected_text(run, use_normalized) ==
    IF use_normalized THEN run.normalized_root ELSE run.root_answer.text

\* answer_distribution from the i-th run on: the count per distinct text,
\* the keys in first-seen order
RECURSIVE CountFrom(_, _, _, _)
CountFrom(rs, use_normalized, i, dist) ==
    IF i > Len(rs) THEN dist
    ELSE LET t == selected_text(rs[i], use_normalized) IN
         CountFrom(rs, use_normalized, i + 1,
                   DictSet(dist, t, IF t \in Range(dist.keys) THEN dist.val[t] + 1 ELSE 1))

\* answer_distribution(report, use_normalized)
answer_distribution(report, use_normalized) ==
    CountFrom(report.runs, use_normalized, 1, EmptyDict)

\* mode_answer(report, use_normalized): the (answer, count) of the largest
\* count, the first seen among equals; (None, 0) for a report without runs
mode_answer(report, use_normalized) ==
    LET dist == answer_distribution(report, use_normalized) IN
    IF dist.keys = <<>> THEN [answer |-> NoneText, count |-> 0]
    ELSE LET best == CHOOSE i \in 1..Len(dist.keys) :
                        /\ \A j \in 1..Len(dist.keys) :
                              dist.val[dist.keys[j]] <= dist.val[dist.keys[i]]
                        /\ \A j \in 1..(i - 1) :
                              dist.val[dist.keys[j]] < dist.val[dist.keys[i]]
         IN [answer |-> dist.keys[best], count |-> dist.val[dist.keys[best]]]

\* the greatest common divisor
RECURSIVE Gcd(_, _)
Gcd(a, b) == IF b = 0 THEN a ELSE Gcd(b, a % b)

\* the quotient n / d of two counts, in lowest terms
Ratio(n, d) == [num |-> n \div Gcd(n, d), den |-> d \div Gcd(n, d)]

\* Faulty variant of agreement_rate: the share of the first-seen answer
agreement_rate_of_first(report, use_normalized) ==
    LET dist == answer_distribution(report, use_normalized) IN
    IF report.runs = <<>> THEN Ratio(0, 1)
    ELSE Ratio(dist.val[dist.keys[1]], Len(report.runs))

\* agreement_rate(report, use_normalized): mode count / run count, 0 without runs
agreement_rate(report, use_normalized) ==
    IF report.runs = <<>> THEN Ratio(0, 1)
    ELSE Ratio(mode_answer(report, use_normalized).count, Len(report.runs))

\* shannon_entropy(distribution), kept as the relative frequencies p whose
\* term -p ln p is not zero (those below 1), by key: the entropy is 0 exactly
\* when there is none
shannon_entropy(dist) ==
    LET total == IF dist.keys = <<>> THEN 0
                 ELSE LET RECURSIVE Sum(_)
                          Sum(ks) == IF ks = <<>> THEN 0
                                     ELSE dist.val[Head(ks)] + Sum(Tail(ks))
                      IN Sum(dist.keys)
        terms == SelectSeq(dist.keys, LAMBDA k : dist.val[k] < total)
    IN [i \in 1..Len(terms) |-> Ratio(dist.val[terms[i]], total)]

\* a metrics call not yet made
MetricsCall(rs, use_normalized) ==
    [pc |-> "metrics", report |-> [runs |-> rs], use_normalized |-> use_normalized,
     dist |-> EmptyDict, mode |-> [answer |-> NoneText, count |-> 0],
     rate |-> Ratio(0, 1), entropy |-> <<>>]

InitMetrics ==
    /\ \E n \in 0..MaxRuns :
          \E texts \in [1..n -> FakeAnswers], use_normalized \in BOOLEAN :
              direct = MetricsCall([i \in 1..n |-> FakeRun(texts[i][1], texts[i][2], <<>>)],
                                   use_normalized)
    /\ toq = NoToQ
    /\ cache = EmptyDict
    /\ call = [entry |-> "metrics", toq |-> toq, plan_opts |-> NoPlanOpts,
               substituter |-> "None", normalizer |-> "None", context |-> "None",
               cache |-> cache,
               collapser |-> "collapser"]
    /\ pc = "metrics_only"
    /\ subst = NoSubst
    /\ first = NoFirst
    /\ calls = <<>>
    /\ ev = NoEval
    /\ base_trace = NoTrace
    /\ plans = <<>>
    /\ plan_i = 1
    /\ roots = <<>>
    /\ root_i = 1
    /\ open_toq_by_root = EmptyDict
    /\ collapsed_question_by_root = EmptyDict
    /\ collapsed = NoCollapsed
    /\ runs = <<>>
    /\ result = NoResult

\* answer_distribution, mode_answer, agreement_rate and shannon_entropy of
\* the report
ComputeMetrics ==
    /\ direct.pc = "metrics"
    /\ direct' = [direct EXCEPT
                    !.pc = "returned",
                    !.dist = answer_distribution(direct.report, direct.use_normalized),
                    !.mode = mode_answer(direct.report, direct.use_normalized),
                    !.rate = agreement_rate(direct.report, direct.use_normalized),
                    !.entropy = shannon_entropy(
                                   answer_distribution(direct.report,
                                                       direct.use_normalized))]
    /\ UNCHANGED <<call, toq, pc, cache, calls, ev, base_trace, plans, plan_i, roots,
                   root_i, open_toq_by_root, collapsed_question_by_root, collapsed, runs,
                   result, subst, first>>

NextMetrics == ComputeMetrics

SpecMetrics == InitMetrics /\ [][NextMetrics]_vars

----------------------------------------------------------------------------
(* run_eval.py and run_eval_3step.py: run(...) over the loaded examples *)

\* Most examples a loader returns
MaxExamples == 2

Drivers == {"run_eval", "run_eval_3step"}

\* one loaded example; flaky when an oracle call of it fails (the answerer
\* and the collapser of the drivers go over the network)
Example(question_id, t, flaky) == [question_id |-> question_id, toq |-> t, flaky |-> flaky]

\* The trees of the examples: the two-step chain of load_hotpot_2step, the
\* three-step chain and fan-in tree of the 3-step loaders, and for each driver
\* a tree that fails validation; for run_eval also a tree of the root alone.
ExampleTrees(driver) ==
    IF driver = "run_eval"
    THEN { TreeInput(2, <<2, None>>, 2, Ascending(2)),
           TreeInput(2, <<2, 1>>, 2, Ascending(2)),
           TreeInput(1, <<None>>, 1, Ascending(1)) }
    ELSE { TreeInput(3, <<2, 3, None>>, 3, Ascending(3)),
           TreeInput(3, <<3, 3, None>>, 3, Ascending(3)),
           TreeInput(3, <<2, 3, 1>>, 3, Ascending(3)) }

\* plan_opts as the driver passes it
DriverPlanOpts(driver, t) ==
    IF driver = "run_eval" THEN PlanOpts({"include_empty"}, TRUE, <<>>)
    ELSE PlanOpts({"include_empty", "plans_override"}, TRUE,
                  <<CollapsePlan(<<>>),
                    CollapsePlan(Sorted(Range(t.keys) \ {t.root_id}))>>)

\* one entry of results: the record of the try body, or the error record
ResultRecord(question_id, error, consistent, baseline, run_answers) ==
    [question_id |-> question_id, error |-> error, consistent |-> consistent,
     baseline |-> baseline, run_answers |-> run_answers]

\* the rest of the try body after run_consistency_check has returned: the
\* exception it raises, "ok" when it raises none
RecordError(driver, ex, report) ==
    IF driver = "run_eval" /\ 1 \notin Range(ex.toq.keys) THEN "KeyError: 1"
    ELSE IF driver = "run_eval" /\ 2 \notin Range(ex.toq.keys) THEN "KeyError: 2"
    ELSE IF driver = "run_eval" /\ Len(report.runs) < 2
         THEN "IndexError: list index out of range"
    ELSE "ok"

\* the record appended for example ex, res being what run_consistency_check
\* has returned or raised
RecordOf(driver, ex, res) ==
    IF res.kind = "raised"
    THEN ResultRecord(ex.question_id, res.error, "None", <<>>, <<>>)
    ELSE IF RecordError(driver, ex, res.report) # "ok"
         THEN ResultRecord(ex.question_id, RecordError(driver, ex, res.report), "None",
                           <<>>, <<>>)
    ELSE ResultRecord(ex.question_id, "ok",
                      IF agreement_rate(res.report, FALSE) = Ratio(1, 1) THEN "True"
                      ELSE "False",
                      res.report.base_root_answer.text,
                      [i \in 1..Len(res.report.runs) |->
                          res.report.runs[i].root_answer.text])

InitBatch ==
    /\ \E driver \in Drivers, n \in 0..MaxExamples :
          \E trees \in [1..n -> ExampleTrees(driver)], flaky \in [1..n -> BOOLEAN] :
              direct = [pc |-> "loop", driver |-> driver,
                        examples |-> [i \in 1..n |-> Example(i, trees[i], flaky[i])],
                        i |-> 1, results |-> <<>>]
    /\ toq = NoToQ
    /\ cache = EmptyDict
    /\ call = [entry |-> "run", toq |-> toq, plan_opts |-> NoPlanOpts,
               substituter |-> "None", normalizer |-> "None", context |-> "None",
               cache |-> cache,
               collapser |-> "collapser"]
    /\ pc = "idle"
    /\ subst = NoSubst
    /\ first = NoFirst
    /\ calls = <<>>
    /\ ev = NoEval
    /\ base_trace = NoTrace
    /\ plans = <<>>
    /\ plan_i = 1
    /\ roots = <<>>
    /\ root_i = 1
    /\ open_toq_by_root = EmptyDict
    /\ collapsed_question_by_root = EmptyDict
    /\ collapsed = NoCollapsed
    /\ runs = <<>>
    /\ result = NoResult

\* "for i, ex in enumerate(examples)": the try body calls
\* run_consistency_check on ex.toq, without a cache
StartExample ==
    /\ direct.pc = "loop"
    /\ direct.i <= Len(direct.examples)
    /\ LET ex == direct.examples[direct.i] IN
       /\ toq' = ex.toq
       /\ call' = [entry |-> "run_consistency_check", toq |-> ex.toq,
                   plan_opts |-> DriverPlanOpts(direct.driver, ex.toq),
                   substituter |-> "None", normalizer |-> "None", context |-> "None",
                   cache |-> EmptyDict, collapser |-> "collapser"]
    /\ direct' = [direct EXCEPT !.pc = "in_example"]
    /\ cache' = EmptyDict
    /\ pc' = "validate"
    /\ calls' = <<>>
    /\ ev' = NoEval
    /\ base_trace' = NoTrace
    /\ plans' = <<>>
    /\ plan_i' = 1
    /\ roots' = <<>>
    /\ root_i' = 1
    /\ open_toq_by_root' = EmptyDict
    /\ collapsed_question_by_root' = EmptyDict
    /\ collapsed' = NoCollapsed
    /\ runs' = <<>>
    /\ result' = NoResult
    /\ UNCHANGED <<subst, first>>

\* An oracle call of a flaky example raises: the answerer about to be asked,
\* or the collapser about to be called; run_consistency_check has no handler
\* and the exception leaves it
OracleRaises ==
    /\ direct.pc = "in_example"
    /\ direct.examples[direct.i].flaky
    /\ \/ pc \in {"baseline", "quotient"} /\ ev.i <= Len(ev.order)
       \/ pc = "collapse" /\ root_i <= Len(roots)
    /\ pc' = "raised"
    /\ result' = Raised("oracle error")
    /\ UNCHANGED <<call, toq, cache, calls, ev, base_trace, plans, plan_i, roots, root_i,
                   open_toq_by_root, collapsed_question_by_root, collapsed, runs,
                   subst, direct, first>>

\* Faulty variant of RecordExample: an exception of the try body is not caught
RecordExample_uncaught ==
    /\ direct.pc = "in_example"
    /\ pc \in {"done", "raised"}
    /\ LET rec == RecordOf(direct.driver, direct.examples[direct.i], result) IN
       direct' = IF rec.error # "ok" THEN [direct EXCEPT !.pc = "aborted"]
                 ELSE [direct EXCEPT !.pc = "loop", !.i = direct.i + 1,
                                     !.results = Append(direct.results, rec)]
    /\ pc' = "idle"
    /\ UNCHANGED <<call, toq, cache, calls, ev, base_trace, plans, plan_i, roots, root_i,
                   open_toq_by_root, collapsed_question_by_root, collapsed, runs, result,
                   subst, first>>

\* The end of the try statement: results.append of the record, or of the
\* error record in "except Exception", and on to the next example
RecordExample ==
    /\ direct.pc = "in_example"
    /\ pc \in {"done", "raised"}
    /\ direct' = [direct EXCEPT
                    !.pc = "loop",
                    !.i = direct.i + 1,
                    !.results = Append(direct.results,
                                       RecordOf(direct.driver,
                                                direct.examples[direct.i], result))]
    /\ pc' = "idle"
    /\ UNCHANGED <<call, toq, cache, calls, ev, base_trace, plans, plan_i, roots, root_i,
                   open_toq_by_root, collapsed_question_by_root, collapsed, runs, result,
                   subst, first>>

\* After the loop: json.dump of results, then the summary line; run_eval
\* divides by the number of records with a verdict
WriteResults ==
    /\ direct.pc = "loop"
    /\ direct.i > Len(direct.examples)
    /\ LET n_valid == Len(SelectSeq(direct.results, LAMBDA r : r.consistent # "None")) IN
       direct' = [direct EXCEPT
                    !.pc = IF direct.driver = "run_eval" /\ n_valid = 0
                           THEN "written, then ZeroDivisionError"
                           ELSE "written"]
    /\ UNCHANGED <<call, toq, pc, cache, calls, ev, base_trace, plans, plan_i, roots,
                   root_i, open_toq_by_root, collapsed_question_by_root, collapsed, runs,
                   result, subst, first>>

NextBatch ==
    \/ StartExample
    \/ Validate
    \/ AnswerNode
    \/ FinishBaseline
    \/ CollapseRoot
    \/ ApplyPlan
    \/ RecordRun
    \/ Return
    \/ OracleRaises
    \/ RecordExample
    \/ WriteResults

SpecBatch == InitBatch /\ [][NextBatch]_vars

----------------------------------------------------------------------------
(* Properties of run_consistency_check *)

\* the calls made to one oracle, in order
CallsTo(oracle) == SelectSeq(calls, LAMBDA c : c.oracle = oracle)

\* the (component root id, inputs) pair a collapser call was made for
PairOf(c) == <<c.nid, c.open_toq.inputs>>

\* the (component root id, inputs) pairs of the components of one run
PairsOfRun(run) ==
    {<<r, run.collapsed.open_toq_by_root.val[r].inputs>> :
        r \in Range(run.collapsed.open_toq_by_root.keys)}

\* the pairs met over all the runs of the call
PairsEncountered == UNION {PairsOfRun(runs[i]) : i \in 1..Len(runs)}

\* C1: in a call started with an empty cache, the collapser is called at most
\* once for each distinct (component root id, inputs) pair, however many plans
\* induce a component with that pair; when the call returns, the number of
\* collapser calls is the number of distinct pairs met and the size of the
\* cache.
C1_CollapserOncePerPair ==
    (call.cache = EmptyDict) =>
        LET cc == CallsTo("collapser") IN
        /\ \A i, j \in 1..Len(cc) : PairOf(cc[i]) = PairOf(cc[j]) => i = j
        /\ pc = "done" => /\ Len(cc) = Cardinality(PairsEncountered)
                          /\ Len(cc) = Len(cache.keys)

\* A call that started with an empty cache has returned, and two of its plans
\* induced a component with the same pair.
C1_Witness ==
    /\ pc = "done"
    /\ call.cache = EmptyDict
    /\ \E i, j \in 1..Len(runs) : i # j /\ PairsOfRun(runs[i]) \cap PairsOfRun(runs[j]) # {}

\* the node ids of an OpenToQ
NodesOf(open_toq) == Range(open_toq.toq.keys)

\* the nearest ancestor-or-self of n that is a component root
RECURSIVE OwnerRoot(_, _, _)
OwnerRoot(t, component_root_ids, n) ==
    IF n \in component_root_ids THEN n
    ELSE OwnerRoot(t, component_root_ids, t.nodes[n].parent)

\* the components extracted for one run partition the nodes of the tree
PartitionOfRun(run) ==
    LET by_root == run.collapsed.open_toq_by_root
        rs      == {toq.root_id} \cup Range(run.plan.cut_edges)
    IN /\ Range(by_root.keys) = rs
       /\ \A r1, r2 \in rs : r1 # r2 => NodesOf(by_root.val[r1]) \cap NodesOf(by_root.val[r2]) = {}
       /\ UNION {NodesOf(by_root.val[r]) : r \in rs} = Range(toq.keys)
       /\ \A n \in Range(toq.keys) : n \in NodesOf(by_root.val[OwnerRoot(toq, rs, n)])

\* C2: for every plan the call processes, the node sets of the OpenToQs
\* extracted for the component roots ({root} and the cut ids) are pairwise
\* disjoint, their union is the node set of the tree, and every node lies in
\* the component of its nearest ancestor-or-self that is a component root.
C2_ComponentsPartition ==
    pc = "done" => \A i \in 1..Len(result.report.runs) : PartitionOfRun(result.report.runs[i])

\* The call has returned and one of its runs has two components, one of them
\* of two nodes or more.
C2_Witness ==
    /\ pc = "done"
    /\ \E i \in 1..Len(result.report.runs) :
          LET by_root == result.report.runs[i].collapsed.open_toq_by_root IN
          /\ Len(by_root.keys) >= 2
          /\ \E r \in Range(by_root.keys) : Cardinality(NodesOf(by_root.val[r])) >= 2

\* the plans of the RunRecords of the report, in order
PlansOfReport == [i \in 1..Len(result.report.runs) |-> result.report.runs[i].plan]

\* C3: when plan_opts carries plans_override, the report holds exactly one
\* RunRecord per override plan, in the given order.
C3_OverrideIsUsed ==
    (pc = "done" /\ "plans_override" \in call.plan_opts.keys)
        => PlansOfReport = call.plan_opts.plans_override

\* the cut-id tuples of the non-root subsets a plan list must hold
ExpectedCuts(include_empty) ==
    {Sorted(S) : S \in (SUBSET (Range(toq.keys) \ {toq.root_id}))
                        \ (IF include_empty THEN {} ELSE {{}})}

\* C4: without an override, the report holds one RunRecord per enumerated
\* plan, in enumeration order: 2^k runs for k non-root nodes when include_empty
\* is true or plan_opts is omitted, and 2^k - 1 runs, none with an empty cut
\* set, when plan_opts["include_empty"] is false.
C4_OneRunPerEnumeratedPlan ==
    (pc = "done" /\ "plans_override" \notin call.plan_opts.keys) =>
        LET k  == Len(toq.keys) - 1
            ie == ("None" \in call.plan_opts.keys) \/ call.plan_opts.include_empty
            ps == PlansOfReport
        IN /\ Len(ps) = IF ie THEN 2 ^ k ELSE 2 ^ k - 1
           /\ {ps[i].cut_edges : i \in 1..Len(ps)} = ExpectedCuts(ie)
           /\ \A i, j \in 1..Len(ps) : i < j => TupleLess(ps[i].cut_edges, ps[j].cut_edges)
           /\ ~ie => \A i \in 1..Len(ps) : ps[i].cut_edges # <<>>

\* A call with plan_opts = {"include_empty": False} on a tree of two non-root
\* nodes has returned three runs.
C4_Witness ==
    /\ pc = "done"
    /\ call.plan_opts.keys = {"include_empty"}
    /\ ~call.plan_opts.include_empty
    /\ Len(toq.keys) = 3
    /\ Len(result.report.runs) = 3

\* C5: in every RunRecord, the quotient's node ids are {root} and the cut ids,
\* removed_nodes are all the other node ids, the quotient's root is the
\* original root, and root_answer is the trace's answer at the original root.
C5_RunRecordShape ==
    pc = "done" =>
        \A i \in 1..Len(result.report.runs) :
            LET run   == result.report.runs[i]
                nodes == {toq.root_id} \cup Range(run.plan.cut_edges)
            IN /\ Range(run.collapsed.toq.keys) = nodes
               /\ DOMAIN run.collapsed.toq.nodes = nodes
               /\ run.collapsed.removed_nodes = Range(toq.keys) \ nodes
               /\ run.collapsed.toq.root_id = toq.root_id
               /\ run.root_answer = run.trace.answer.val[toq.root_id]

\* The call has returned a run whose quotient has a node besides the root and
\* whose plan removed a node.
C5_Witness ==
    /\ pc = "done"
    /\ \E i \in 1..Len(result.report.runs) :
          /\ Len(result.report.runs[i].collapsed.toq.keys) >= 2
          /\ result.report.runs[i].collapsed.removed_nodes # {}

----------------------------------------------------------------------------
(* Properties of evaluate_toq *)

\* the oracle calls of the evaluate_toq in progress
EvalCalls == SubSeq(calls, ev.mark + 1, Len(calls))

\* its answerer calls
EvalAnswererCalls == SelectSeq(EvalCalls, LAMBDA c : c.oracle = "answerer")

\* its substituter calls for node nid
EvalSubstituterCalls(nid) ==
    SelectSeq(EvalCalls, LAMBDA c : c.oracle \in {"default_substituter", "custom_substituter"}
                                    /\ c.nid = nid)

Evaluating == pc \in {"baseline", "quotient"}

\* C6: evaluate_toq calls the answerer once per node, children before their
\* parent and the root last, each call with the node's rendered question and
\* the context of the call.
C6_AnswererPostOrder ==
    Evaluating =>
        LET ac == EvalAnswererCalls
            ch == children(ev.toq)
        IN /\ \A i, j \in 1..Len(ac) : ac[i].nid = ac[j].nid => i = j
           /\ \A i \in 1..Len(ac) :
                /\ ac[i].nid \in Range(ev.toq.keys)
                /\ \A c \in Range(ch[ac[i].nid]) : \E j \in 1..(i - 1) : ac[j].nid = c
                /\ ac[i].text = ev.rendered.val[ac[i].nid]
                /\ ac[i].context = call.context
           /\ ev.i > Len(ev.order) =>
                /\ {ac[i].nid : i \in 1..Len(ac)} = Range(ev.toq.keys)
                /\ ac[Len(ac)].nid = ev.toq.root_id

\* An evaluate_toq with a context has asked its last question, on a tree with
\* a node of two children.
C6_Witness ==
    /\ Evaluating
    /\ ev.i > Len(ev.order)
    /\ call.context = "ctx"
    /\ \E n \in Range(ev.toq.keys) : Len(children(ev.toq)[n]) = 2

\* C7: a leaf is rendered as its raw text without a substituter call; a node
\* with children is rendered by one call substituter(template, m), m mapping
\* exactly its children to their recorded answer texts; the caller's
\* substituter, when given, is the one called.
C7_Rendering ==
    Evaluating =>
        \A nid \in Range(ev.rendered.keys) :
            LET template == ev.toq.nodes[nid].text
                cs       == children(ev.toq)[nid]
                sc       == EvalSubstituterCalls(nid)
            IN IF cs = <<>>
               THEN /\ ev.rendered.val[nid] = template
                    /\ sc = <<>>
               ELSE /\ Len(sc) = 1
                    /\ sc[1].text = template
                    /\ Range(sc[1].child_answers.keys) = Range(cs)
                    /\ \A c \in Range(cs) :
                          sc[1].child_answers.val[c] = ev.answers.val[c].text
                    /\ IF call.substituter = "None"
                       THEN /\ sc[1].oracle = "default_substituter"
                            /\ ev.rendered.val[nid]
                                 = default_substituter(template, sc[1].child_answers)
                       ELSE /\ sc[1].oracle = "custom_substituter"
                            /\ ev.rendered.val[nid]
                                 = custom_substituter(template, sc[1].child_answers)

\* An evaluate_toq with the caller's substituter has rendered a leaf and a
\* node with children.
C7_Witness ==
    /\ Evaluating
    /\ ev.i > Len(ev.order)
    /\ call.substituter = "custom"
    /\ \E n \in Range(ev.rendered.keys) : children(ev.toq)[n] # <<>>
    /\ \E n \in Range(ev.rendered.keys) : children(ev.toq)[n] = <<>>

\* every [A<c>] of the template replaced by the answer of child c, for the
\* children of m, in one pass over the template
RECURSIVE SimultaneousSubstitution(_, _)
SimultaneousSubstitution(template, m) ==
    IF template = <<>> THEN <<>>
    ELSE IF \E c \in Range(m.keys) :
               Len(template) >= 4 /\ SubSeq(template, 1, 4) = Placeholder(c)
         THEN LET c == CHOOSE c \in Range(m.keys) : SubSeq(template, 1, 4) = Placeholder(c)
              IN m.val[c] \o SimultaneousSubstitution(SubSeq(template, 5, Len(template)), m)
         ELSE <<Head(template)>> \o SimultaneousSubstitution(Tail(template), m)

\* C8: default_substituter replaces every [A<c>] of the template by the answer
\* of child c, for every child and nothing else, and its result does not
\* depend on the order of the children, whatever the answer texts hold.
C8_SubstitutionOfTemplateOnly ==
    subst.pc = "returned" =>
        /\ subst.out = SimultaneousSubstitution(subst.template, subst.child_answers)
        /\ subst.out = default_substituter(subst.template,
                                           Dict(Reverse(subst.child_answers.keys),
                                                subst.child_answers.val))

----------------------------------------------------------------------------
(* Properties of ToQ.validate *)

\* node k reaches the root in at most n parent links
RECURSIVE ReachesRoot(_, _, _)
ReachesRoot(t, k, n) ==
    \/ k = t.root_id
    \/ /\ n > 0
       /\ t.nodes[k].parent \in Range(t.keys)
       /\ ReachesRoot(t, t.nodes[k].parent, n - 1)

\* the tree is well formed
WellFormed(t) ==
    /\ t.root_id \in Range(t.keys)
    /\ \A k \in Range(t.keys) :
          /\ t.nodes[k].id = k
          /\ t.nodes[k].parent # None =>
                t.nodes[k].parent \in Range(t.keys) /\ t.nodes[k].parent # k
          /\ t.nodes[k].parent = None <=> k = t.root_id
    /\ \A k \in Range(t.keys) : ReachesRoot(t, k, Len(t.keys))

\* C9: ToQ.validate returns exactly when the tree is well formed (root id a
\* key, ids equal to keys, parents present and not the node itself, the root
\* the only node without parent, every node reaching the root), raises
\* otherwise, and leaves the tree as it was.
C9_ValidateIffWellFormed ==
    /\ pc = "validated" => WellFormed(toq)
    /\ pc = "raised" => ~WellFormed(toq) /\ result.kind = "raised"
    /\ toq = call.toq

\* validate has returned on a tree of three nodes
C9_Witness == pc = "validated" /\ Len(toq.keys) = 3

\* C10: on a tree that fails validation, run_consistency_check and
\* run_consistency_check_from_question raise before any call of the answerer,
\* the collapser, the normalizer or a substituter, and leave the caller's
\* cache as it was.
C10_InvalidTreeRaisesFirst ==
    ~WellFormed(call.toq) =>
        /\ pc \in {"decompose", "validate", "raised"}
        /\ pc = "raised" => result.kind = "raised"
        /\ \A i \in 1..Len(calls) : calls[i].oracle = "decomposer"
        /\ cache = call.cache

\* run_consistency_check_from_question has raised on a malformed tree of the
\* decomposer, the caller having passed a cache with an entry.
C10_Witness ==
    /\ pc = "raised"
    /\ ~WellFormed(call.toq)
    /\ call.entry = "run_consistency_check_from_question"
    /\ call.cache # EmptyDict
    /\ Len(toq.keys) >= 2

----------------------------------------------------------------------------
(* Properties of the transforms, as run_consistency_check uses them *)

\* the nodes met walking up from n by parent links, n first
RECURSIVE PathUp(_, _, _)
PathUp(t, n, fuel) ==
    IF n = None \/ n \notin Range(t.keys) \/ fuel = 0 THEN <<>>
    ELSE <<n>> \o PathUp(t, t.nodes[n].parent, fuel - 1)

\* the first node of a path that lies in S, None when there is none
FirstIn(path, S) ==
    IF \E j \in 1..Len(path) : path[j] \in S
    THEN path[CHOOSE j \in 1..Len(path) :
                 path[j] \in S /\ \A m \in 1..(j - 1) : path[m] \notin S]
    ELSE None

\* the CollapsedToQ apply_collapse_plan has just returned, if it just has
QuotientsBuilt == IF pc = "quotient" /\ ev.i = 1 THEN {collapsed} ELSE {}

\* C11: on a valid tree and a plan of non-root cut ids, apply_collapse_plan
\* gives every component root but the tree root the first component root met
\* walking up from its original parent, gives the tree root parent None, sets
\* each text to the supplied collapsed question, and the quotient passes
\* validation, so that no run on a valid tree raises.
C11_QuotientWellFormed ==
    /\ WellFormed(call.toq) => pc # "raised"
    /\ \A q \in QuotientsBuilt :
          LET component_root_ids == {toq.root_id} \cup Range(q.plan.cut_edges) IN
          /\ Range(q.toq.keys) = component_root_ids
          /\ q.toq.root_id = toq.root_id
          /\ \A r \in component_root_ids :
                /\ q.toq.nodes[r].text = q.collapsed_question_by_root.val[r]
                /\ q.toq.nodes[r].parent =
                      IF r = toq.root_id THEN None
                      ELSE FirstIn(PathUp(toq, toq.nodes[r].parent, Len(toq.keys)),
                                   component_root_ids)
          /\ WellFormed(q.toq)
          /\ validate(q.toq) = "ok"

\* A quotient was built in which a cut node hangs under a component root that
\* is not its original parent.
C11_Witness ==
    \E q \in QuotientsBuilt : \E r \in Range(q.plan.cut_edges) :
        /\ toq.nodes[r].parent \notin Range(q.toq.keys)
        /\ q.toq.nodes[r].parent = toq.root_id

\* the nodes from which walking up meets r before any cut id
ReachedBelow(t, cut, r) ==
    {n \in Range(t.keys) :
        LET path == PathUp(t, n, Len(t.keys)) IN
        \E j \in 1..Len(path) : path[j] = r /\ \A m \in 1..(j - 1) : path[m] \notin cut}

\* the component root whose OpenToQ extract_open_toq has just returned
JustExtracted == IF pc = "collapse" /\ root_i > 1 THEN {roots[root_i - 1]} ELSE {}

\* C12: extract_open_toq(tree, plan, r) has root_id r, exactly the nodes
\* reachable downward from r without passing through a cut id, with their
\* original texts and parent links inside the component, and as inputs exactly
\* the cut ids whose parent is in that node set, ascending without duplicates.
C12_ExtractedComponent ==
    \A r \in JustExtracted :
        LET cut    == Range(plans[plan_i].cut_edges)
            ot     == open_toq_by_root.val[r]
            inside == ReachedBelow(toq, cut, r)
        IN /\ ot.root_id = r
           /\ ot.toq.root_id = r
           /\ Range(ot.toq.keys) = inside
           /\ Len(ot.toq.keys) = Cardinality(inside)
           /\ \A k \in inside :
                 /\ ot.toq.nodes[k].id = k
                 /\ ot.toq.nodes[k].text = toq.nodes[k].text
                 /\ k # r => /\ ot.toq.nodes[k].parent = toq.nodes[k].parent
                             /\ ot.toq.nodes[k].parent \in inside
           /\ Range(ot.inputs) = {c \in cut : toq.nodes[c].parent \in inside}
           /\ \A a, b \in 1..Len(ot.inputs) : a < b => ot.inputs[a] < ot.inputs[b]

\* A component of two nodes with an input was extracted.
C12_Witness ==
    \E r \in JustExtracted :
        LET ot == open_toq_by_root.val[r] IN
        Len(ot.toq.keys) = 2 /\ Len(ot.inputs) = 1

\* enumerate_collapse_plans has just returned the plan list
JustEnumerated ==
    \/ pc = "collapse" /\ plan_i = 1 /\ root_i = 1
    \/ pc = "return" /\ plans = <<>>

\* C13: enumerate_collapse_plans returns, for k non-root nodes, 2^k pairwise
\* distinct plans, one per subset of the non-root ids, ascending by sorted
\* cut-id tuple (the empty plan first), the same on every call; without
\* include_empty the same sequence less the empty plan.
C13_EnumerationOfPlans ==
    JustEnumerated =>
        LET non_root == Range(toq.keys) \ {toq.root_id}
            k        == Cardinality(non_root)
            ie       == include_empty_of(call.plan_opts)
            cuts     == [i \in 1..Len(plans) |-> plans[i].cut_edges]
        IN /\ Len(plans) = IF ie THEN 2^k ELSE 2^k - 1
           /\ \A i \in 1..Len(plans) :
                 /\ Range(cuts[i]) \subseteq non_root
                 /\ \A a, b \in 1..Len(cuts[i]) : a < b => cuts[i][a] < cuts[i][b]
           /\ \A S \in SUBSET non_root :
                 (S # {} \/ ie) => \E i \in 1..Len(plans) : Range(cuts[i]) = S
           /\ \A i, j \in 1..Len(plans) : i < j => TupleLess(cuts[i], cuts[j])
           /\ IF ie THEN cuts[1] = <<>> ELSE \A i \in 1..Len(plans) : cuts[i] # <<>>
           /\ plans = enumerate_collapse_plans(toq, ie)

\* The plans of a tree with two non-root nodes were enumerated without the
\* empty plan.
C13_Witness ==
    /\ JustEnumerated
    /\ Cardinality(Range(toq.keys) \ {toq.root_id}) = 2
    /\ ~include_empty_of(call.plan_opts)
    /\ Len(plans) = 3

\* C14: apply_collapse_plan raises, and produces no CollapsedToQ, exactly when
\* the cut set holds the root id, or holds an id absent from the tree, or the
\* mapping of collapsed questions lacks a component root; otherwise, on a
\* valid tree, it returns a CollapsedToQ.
C14_ApplyRaisesExactlyWhen ==
    pc \in {"raised", "applied"} =>
        LET cut == Range(plans[1].cut_edges)
            bad == \/ toq.root_id \in cut
                   \/ \E c \in cut : c \notin Range(toq.keys)
                   \/ \E r \in {toq.root_id} \cup cut :
                         r \notin Range(collapsed_question_by_root.keys)
        IN /\ pc = "raised" <=> bad
           /\ pc = "raised" => result.kind = "raised" /\ collapsed = NoCollapsed
           /\ pc = "applied" => /\ result.kind = "none"
                                /\ collapsed.plan = plans[1]
                                /\ Range(collapsed.toq.keys) = {toq.root_id} \cup cut
                                /\ collapsed.removed_nodes
                                     = Range(toq.keys) \ ({toq.root_id} \cup cut)

\* apply_collapse_plan has raised for a plan of non-root nodes of the tree,
\* the mapping lacking a cut node.
C14_Witness ==
    /\ pc = "raised"
    /\ plans[1].cut_edges # <<>>
    /\ Range(plans[1].cut_edges) \subseteq Range(toq.keys) \ {toq.root_id}
    /\ toq.root_id \in Range(collapsed_question_by_root.keys)

----------------------------------------------------------------------------
(* Properties of the serialization *)

\* k is n written in decimal, without sign, blank or leading zero
WritesInt(k, n) ==
    /\ k # <<>>
    /\ \A i \in 1..Len(k) : k[i] \in DigitChars
    /\ Len(k) > 1 => k[1] # "0"
    /\ DigitsValue(k) = n

\* C15: for every valid tree t, toq_from_json(toq_to_json(t)) has the root id
\* of t, its node ids, and for each node its id, text and parent; the keys of
\* the serialized nodes are the node ids written as strings.
C15_JsonRoundTrip ==
    (direct.origin = "tree" /\ direct.pc \notin {"to_json", "from_json"}) =>
        /\ direct.pc = "returned"
        /\ direct.out.toq.root_id = toq.root_id
        /\ Range(direct.out.toq.keys) = Range(toq.keys)
        /\ Len(direct.out.toq.keys) = Len(toq.keys)
        /\ \A k \in Range(toq.keys) :
              /\ direct.out.toq.nodes[k].id = toq.nodes[k].id
              /\ direct.out.toq.nodes[k].text = toq.nodes[k].text
              /\ direct.out.toq.nodes[k].parent = toq.nodes[k].parent
        /\ Len(direct.obj.nodes.keys) = Len(toq.keys)
        /\ \A i \in 1..Len(toq.keys) : WritesInt(direct.obj.nodes.keys[i], toq.keys[i])

\* A tree of three nodes with two-digit ids has gone through both functions.
C15_Witness ==
    /\ direct.origin = "tree"
    /\ direct.pc = "returned"
    /\ Len(toq.keys) = 3
    /\ \A k \in Range(toq.keys) : k >= 10

\* the object lacks root_id or nodes, or its nodes are no mapping, or a key
\* is no integer, or an entry lacks id or text
JsonMalformed(obj) ==
    \/ "root_id" \notin obj.fields
    \/ "nodes" \notin obj.fields
    \/ obj.nodes_kind # "mapping"
    \/ \E k \in Range(obj.nodes.keys) :
          \/ ~IntOfStr(k).ok
          \/ "id" \notin obj.nodes.val[k].fields
          \/ "text" \notin obj.nodes.val[k].fields

\* C16: toq_from_json raises for an object without root_id or nodes, with
\* nodes that are no mapping, with a key that is no integer, or with an entry
\* without id or text, and never returns a tree that fails ToQ.validate.
C16_FromJsonRejects ==
    direct.pc \in {"returned", "raised"} =>
        /\ JsonMalformed(direct.obj) => direct.pc = "raised"
        /\ direct.pc = "returned" => WellFormed(direct.out.toq)
        /\ direct.pc = "raised" => direct.out.toq = NoToQ

\* toq_from_json has raised on an object with every field and integer keys,
\* for what validation found.
C16_Witness ==
    /\ direct.origin = "object"
    /\ direct.pc = "raised"
    /\ ~JsonMalformed(direct.obj)
    /\ Len(direct.obj.nodes.keys) = 2
    /\ direct.out.error \in {"missing parent", "key != node.id", "cycle",
                             "unreachable nodes"}

----------------------------------------------------------------------------
(* Properties of two invocations *)

\* both invocations are over
BothOver == first # NoFirst /\ pc \in {"done", "raised"}

\* the root answer texts of a report, run by run
RootAnswersOf(report) == [i \in 1..Len(report.runs) |-> report.runs[i].root_answer]

\* the plans of a report, run by run
PlansOf(report) == [i \in 1..Len(report.runs) |-> report.runs[i].plan]

\* the calls of a log made to one oracle
CallsIn(log, oracle) == SelectSeq(log, LAMBDA c : c.oracle = oracle)

\* C17: run_consistency_check_from_question(q, decomposer, ...) gives the
\* baseline root answer, the plans in order and the root answer of every run
\* that run_consistency_check gives on decomposer(q), each call on a fresh
\* cache, the oracles being deterministic.
C17_FromQuestionMatchesDirect ==
    (BothOver /\ first.entry = "run_consistency_check_from_question") =>
        /\ first.result.kind = result.kind
        /\ first.result.error = result.error
        /\ first.result.report.base_root_answer = result.report.base_root_answer
        /\ PlansOf(first.result.report) = PlansOf(result.report)
        /\ RootAnswersOf(first.result.report) = RootAnswersOf(result.report)
        /\ Len(CallsIn(first.calls, "decomposer")) = 1

\* Both calls have returned a report of four runs, the first one made through
\* the question entry point.
C17_Witness ==
    /\ BothOver
    /\ first.entry = "run_consistency_check_from_question"
    /\ result.kind = "returned"
    /\ Len(result.report.runs) = 4

----------------------------------------------------------------------------
(* Properties of the metrics *)

\* the selected texts of the report, run by run
SelectedTexts ==
    [i \in 1..Len(direct.report.runs) |->
        selected_text(direct.report.runs[i], direct.use_normalized)]

\* how many runs selected the text t
Occurrences(t) == Cardinality({i \in 1..Len(SelectedTexts) : SelectedTexts[i] = t})

\* the count of the most frequent selected text, 0 without runs
MostFrequentCount ==
    IF SelectedTexts = <<>> THEN 0
    ELSE LET counts == {Occurrences(t) : t \in Range(SelectedTexts)}
         IN CHOOSE c \in counts : \A d \in counts : d <= c

AllIdentical == \A i, j \in 1..Len(SelectedTexts) : SelectedTexts[i] = SelectedTexts[j]

\* rate = MostFrequentCount / number of runs, and 0 without runs
RateIsModeShare ==
    IF SelectedTexts = <<>> THEN direct.rate.num = 0
    ELSE direct.rate.num * Len(SelectedTexts) = MostFrequentCount * direct.rate.den

RateIsOne == direct.rate.num = direct.rate.den

\* C19 as stated: agreement_rate is the count of the most frequent selected
\* text over the number of runs (0 without runs), and it is 1.0 iff all runs'
\* selected texts are identical, which is exactly when the distribution has a
\* single key (entropy 0).
C19_AgreementIffIdentical ==
    direct.pc = "returned" =>
        /\ RateIsModeShare
        /\ RateIsOne <=> AllIdentical
        /\ AllIdentical <=> (Len(direct.dist.keys) = 1 /\ direct.entropy = <<>>)

\* C19, amended: agreement_rate is the count of the most frequent selected
\* text over the number of runs, and 0 without runs; for a report of at least
\* one run it is 1.0 iff all runs' selected texts are identical, which is
\* exactly when the distribution has a single key, and exactly when the
\* entropy is 0; without runs the rate is not 1.0 and the distribution has no
\* key.
C19_AgreementIffIdenticalWithRuns ==
    direct.pc = "returned" =>
        /\ RateIsModeShare
        /\ direct.report.runs # <<>> =>
              /\ RateIsOne <=> AllIdentical
              /\ AllIdentical <=> Len(direct.dist.keys) = 1
              /\ Len(direct.dist.keys) = 1 <=> direct.entropy = <<>>
        /\ direct.report.runs = <<>> =>
              /\ ~RateIsOne
              /\ direct.dist.keys = <<>>

\* The metrics of a report of three runs with raw answers apart and
\* normalized answers identical have been computed on the normalized text.
C19_Witness ==
    /\ direct.pc = "returned"
    /\ Len(direct.report.runs) = 3
    /\ direct.use_normalized
    /\ RateIsOne
    /\ \E i, j \in 1..3 :
          direct.report.runs[i].root_answer # direct.report.runs[j].root_answer

----------------------------------------------------------------------------
(* Properties of the batch drivers *)

Written == direct.pc \in {"written", "written, then ZeroDivisionError"}

\* C20: in run_eval.run and run_eval_3step.run an exception raised while an
\* example is processed is caught and recorded as an error record with
\* consistent = None, and the loop goes on: results ends with one record per
\* loaded example, in example order.
C20_BatchSurvivesFailures ==
    /\ direct.pc \in {"loop", "in_example", "written", "written, then ZeroDivisionError"}
    /\ Len(direct.results) = (IF Written THEN Len(direct.examples) ELSE direct.i - 1)
    /\ \A j \in 1..Len(direct.results) :
          LET rec == direct.results[j]
              ex  == direct.examples[j]
          IN /\ rec.question_id = ex.question_id
             /\ rec.error # "ok" <=> rec.consistent = "None"
             /\ ~WellFormed(ex.toq) => rec.error # "ok"
             /\ (WellFormed(ex.toq) /\ ~ex.flaky /\ Len(ex.toq.keys) >= 2) =>
                   rec.consistent \in {"True", "False"}
    /\ (direct.pc = "in_example" /\ pc = "raised") =>
          RecordOf(direct.driver, direct.examples[direct.i], result).consistent = "None"

\* The results were written with an error record of an oracle failure
\* followed by a record with a verdict.
C20_Witness ==
    /\ Written
    /\ Len(direct.results) = 2
    /\ direct.results[1].error = "oracle error"
    /\ direct.results[2].consistent \in {"True", "False"}

----------------------------------------------------------------------------
(* Properties of the cache *)

\* the component roots two plans have in common
CommonRoots(p1, p2) ==
    ({toq.root_id} \cup Range(p1.cut_edges)) \cap ({toq.root_id} \cup Range(p2.cut_edges))

\* C21: on one valid tree, two plans that both have r as a component root and
\* give its OpenToQ the same inputs give it the same nodes, texts and parent
\* links; and in a call started with an empty cache, the collapsed question
\* kept for a component root, read from the cache or not, is the string the
\* collapser returns for the OpenToQ of that root under the current plan.
C21_KeyDeterminesComponent ==
    /\ JustEnumerated =>
          \A i, j \in 1..Len(plans) : \A r \in CommonRoots(plans[i], plans[j]) :
              LET o1 == extract_open_toq(toq, plans[i], r)
                  o2 == extract_open_toq(toq, plans[j], r)
              IN o1.inputs = o2.inputs =>
                    /\ Range(o1.toq.keys) = Range(o2.toq.keys)
                    /\ \A k \in Range(o1.toq.keys) :
                          /\ o1.toq.nodes[k].text = o2.toq.nodes[k].text
                          /\ o1.toq.nodes[k].parent = o2.toq.nodes[k].parent
    /\ call.cache = EmptyDict =>
          \A r \in JustExtracted :
              collapsed_question_by_root.val[r]
                  = collapser(open_toq_by_root.val[r], call.context)

\* A collapsed question was read from the cache for a component with an
\* input: the one collapser call for it was made under an earlier plan.
C21_Witness ==
    /\ call.cache = EmptyDict
    /\ plan_i > 1
    /\ \E r \in JustExtracted :
          LET ot == open_toq_by_root.val[r] IN
          /\ Len(ot.inputs) = 1
          /\ Len(SelectSeq(calls, LAMBDA c : c.oracle = "collapser" /\ c.nid = r
                                             /\ c.open_toq = ot)) = 1
          /\ calls[Len(calls)].oracle # "collapser"

\* C22: when one cache object is handed to successive invocations on different
\* trees, the collapsed question of every component root in every RunRecord
\* is the collapser's string for the OpenToQ extracted from the tree under
\* check in that invocation.
C22_SharedCacheAcrossTrees ==
    \A i \in 1..Len(runs) :
        \A r \in Range(runs[i].collapsed.collapsed_question_by_root.keys) :
            runs[i].collapsed.collapsed_question_by_root.val[r]
                = collapse(call.collapser, extract_open_toq(toq, runs[i].plan, r),
                           call.context)

\* the collapser calls of both threads
ThreadCalls == direct.th[1].calls \o direct.th[2].calls

\* the collapser calls of one sequence are for pairwise distinct keys
DistinctKeys(cc) == \A i, j \in 1..Len(cc) : PairOf(cc[i]) = PairOf(cc[j]) => i = j

\* C23 as stated: when the steps of two invocations on one tree and one cache
\* interleave, the collapser is still called at most once for each distinct
\* (root, inputs) key over the lifetime of the cache.
C23_AtomicGetOrCompute == DistinctKeys(ThreadCalls)

\* C23, amended: the lookup, the collapser call and the store are separate
\* steps; each invocation calls the collapser at most once for each key, so a
\* key sees at most one call for each invocation sharing the cache, and every
\* collapsed question kept is the collapser's string for its component.
C23_OncePerKeyPerInvocation ==
    \A i \in 1..2 :
        /\ DistinctKeys(direct.th[i].calls)
        /\ \A k \in 1..Len(direct.th[i].runs) :
              LET q == direct.th[i].runs[k] IN
              \A r \in Range(q.collapsed_question_by_root.keys) :
                  q.collapsed_question_by_root.val[r]
                      = collapser(extract_open_toq(toq, q.plan, r), call.context)

\* Both threads have returned; each called the collapser for the same key,
\* and one of them read a key from the cache under a later plan.
C23_Witness ==
    /\ direct.th[1].pc = "done"
    /\ direct.th[2].pc = "done"
    /\ ~DistinctKeys(ThreadCalls)
    /\ Len(direct.th[1].calls) < Len(direct.th[2].calls)

----------------------------------------------------------------------------
(* Properties of run_consistency_check when an oracle raises *)

\* the collapser calls that returned: all of them, less the last call of the
\* log when it is the collapser call that raised
ReturnedCollapserCalls ==
    LET cc == CallsTo("collapser") IN
    IF result.error = "collapser raised" THEN SubSeq(cc, 1, Len(cc) - 1) ELSE cc

\* C24: when the collapser or the answerer raises while a plan is processed,
\* run_consistency_check raises that exception after no further oracle call
\* and returns no report, and the cache holds its prior entries unchanged,
\* followed by one entry for each collapser call that returned, the key of
\* the call that raised being absent.
C24_OracleFailurePropagates ==
    (result.error \in {"collapser raised", "answerer raised"} /\ plans # <<>>) =>
        LET ok == ReturnedCollapserCalls
            n0 == Len(call.cache.keys)
        IN /\ pc = "raised"
           /\ result.kind = "raised"
           /\ result.report = NoReport
           /\ calls[Len(calls)].oracle
                 = IF result.error = "collapser raised" THEN "collapser" ELSE "answerer"
           /\ Len(cache.keys) = n0 + Len(ok)
           /\ \A k \in 1..n0 : /\ cache.keys[k] = call.cache.keys[k]
                               /\ cache.val[cache.keys[k]] = call.cache.val[cache.keys[k]]
           /\ \A k \in 1..Len(ok) :
                 /\ cache.keys[n0 + k] = cache_key(ok[k].nid, ok[k].open_toq)
                 /\ cache.val[cache.keys[n0 + k]]
                       = collapse(call.collapser, ok[k].open_toq, call.context)
           /\ result.error = "collapser raised" =>
                 LET c == calls[Len(calls)] IN
                 cache_key(c.nid, c.open_toq) \notin Range(cache.keys)

\* The collapser raised under a later plan, on a cache that held an entry of
\* the caller's and entries of collapser calls that had returned.
C24_Witness ==
    /\ pc = "raised"
    /\ result.error = "collapser raised"
    /\ plan_i > 1
    /\ call.cache # EmptyDict
    /\ Len(cache.keys) > Len(call.cache.keys) + 1

\* The answerer raised while a quotient with two nodes was evaluated.
C24_AnswererWitness ==
    /\ pc = "raised"
    /\ result.error = "answerer raised"
    /\ plans # <<>>
    /\ ev.i = 2

----------------------------------------------------------------------------
(* Frame properties of run_consistency_check *)

\* C25: run_consistency_check leaves the input tree as it was, and changes a
\* caller's cache only by adding entries after the ones it held: an entry
\* present before the call keeps its place and value, no collapser call is
\* made for its key, and every component with that key gets its value as
\* collapsed question.
C25_FrameOfTreeAndCache ==
    LET n0 == Len(call.cache.keys)
        cc == CallsTo("collapser")
    IN /\ toq = call.toq
       /\ Len(cache.keys) >= n0
       /\ \A k \in 1..n0 : /\ cache.keys[k] = call.cache.keys[k]
                           /\ cache.val[cache.keys[k]] = call.cache.val[cache.keys[k]]
       /\ \A k \in 1..Len(cc) :
             cache_key(cc[k].nid, cc[k].open_toq) \notin Range(call.cache.keys)
       /\ \A i \in 1..Len(runs) :
             LET q == runs[i].collapsed IN
             \A r \in Range(q.open_toq_by_root.keys) :
                 LET key == cache_key(r, q.open_toq_by_root.val[r]) IN
                 key \in Range(call.cache.keys) =>
                     q.collapsed_question_by_root.val[r] = call.cache.val[key]

\* The call has returned: it was handed a cache with an entry, used it for a
\* component of two nodes or more, and added entries of its own.
C25_Witness ==
    /\ pc = "done"
    /\ call.cache # EmptyDict
    /\ Len(cache.keys) > Len(call.cache.keys)
    /\ \E i \in 1..Len(runs) :
          LET q == runs[i].collapsed IN
          /\ q.collapsed_question_by_root.val[toq.root_id] = <<"P">>
          /\ Len(q.open_toq_by_root.val[toq.root_id].toq.keys) >= 2

\* the index of the run of the plan that cuts every non-root node, 0 if none
FullCutRun ==
    LET full == Sorted(Range(toq.keys) \ {toq.root_id}) IN
    IF \E i \in 1..Len(runs) : runs[i].plan.cut_edges = full
    THEN CHOOSE i \in 1..Len(runs) : runs[i].plan.cut_edges = full
    ELSE 0

\* two dicts hold the same keys with the same values
SameMapping(d1, d2) ==
    /\ Range(d1.keys) = Range(d2.keys)
    /\ \A k \in Range(d1.keys) : d1.val[k] = d2.val[k]

----------------------------------------------------------------------------
(* Properties of the quotient's evaluation *)

\* the children of r in tree t, read from the parent links
ChildrenOf(t, r) == {c \in Range(t.keys) : t.nodes[c].parent = r}

\* the call a substituter call would be, were it the one before the last
SubstituterCallFor(r) ==
    IF Len(calls) - 1 > ev.mark
       /\ calls[Len(calls) - 1].oracle \in {"default_substituter", "custom_substituter"}
       /\ calls[Len(calls) - 1].nid = r
    THEN {calls[Len(calls) - 1]}
    ELSE {}

\* C27: in the quotient of every plan of a valid tree, the children of every
\* component root r are exactly the inputs of the OpenToQ extracted for r;
\* when r is evaluated, the substituter is handed the answers of exactly
\* those ids, and r is asked verbatim, without the substituter, exactly when
\* its component has no inputs.
C27_QuotientChildrenAreInputs ==
    pc = "quotient" =>
        LET q == collapsed IN
        /\ ev.i = 1 =>
              \A r \in Range(q.toq.keys) :
                  /\ q.open_toq_by_root.val[r] = extract_open_toq(toq, q.plan, r)
                  /\ ChildrenOf(q.toq, r) = Range(q.open_toq_by_root.val[r].inputs)
        /\ ev.i > 1 =>
              LET r      == ev.order[ev.i - 1]
                  inputs == q.open_toq_by_root.val[r].inputs
                  last   == calls[Len(calls)]
              IN /\ last.oracle = "answerer"
                 /\ last.nid = r
                 /\ inputs = <<>> <=> SubstituterCallFor(r) = {}
                 /\ inputs = <<>> => last.text = q.toq.nodes[r].text
                 /\ \A c \in SubstituterCallFor(r) :
                       /\ c.text = q.toq.nodes[r].text
                       /\ Range(c.child_answers.keys) = Range(inputs)
                       /\ Len(c.child_answers.keys) = Len(inputs)

\* A component root with two inputs has just been asked, another root of the
\* same quotient having been asked verbatim.
C27_Witness ==
    /\ pc = "quotient"
    /\ ev.i > 2
    /\ Len(collapsed.open_toq_by_root.val[ev.order[ev.i - 1]].inputs) = 2
    /\ collapsed.open_toq_by_root.val[ev.order[1]].inputs = <<>>

----------------------------------------------------------------------------
(* The oracle call trace of run_consistency_check *)

\* the (root id, inputs) pairs of the keys of a cache
PairsOfCache(c) == {<<c.keys[k][2], c.keys[k][3]>> : k \in 1..Len(c.keys)}

\* the component roots of run i whose key no earlier run met and the caller's
\* cache did not hold, in the order the run visits them
MissedRoots(i) ==
    LET by_root == runs[i].collapsed.open_toq_by_root
        before  == PairsOfCache(call.cache) \cup UNION {PairsOfRun(runs[j]) : j \in 1..(i - 1)}
    IN SelectSeq(by_root.keys, LAMBDA r : <<r, by_root.val[r].inputs>> \notin before)

\* the oracle calls one run is expected to make: oracle, node id and text
ExpectedCallsOfRun(i) ==
    LET run == runs[i] IN
    [k \in 1..Len(MissedRoots(i)) |-> <<"collapser", MissedRoots(i)[k], <<>>>>]
    \o [k \in 1..Len(run.trace.answer.keys) |->
          <<"answerer", run.trace.answer.keys[k],
            run.trace.rendered_question.val[run.trace.answer.keys[k]]>>]
    \o (IF call.normalizer # "None" THEN <<<<"normalizer", None, run.root_answer.text>>>>
        ELSE <<>>)

\* the calls made to the answerer, the collapser and the normalizer
TraceOfOracles ==
    LET cs == SelectSeq(calls, LAMBDA c : c.oracle \in {"answerer", "collapser", "normalizer"})
    IN [k \in 1..Len(cs) |-> <<cs[k].oracle, cs[k].nid, cs[k].text>>]

\* C28: a call on a valid tree makes one answerer call per node for the
\* baseline before any collapser call; then for each plan, in enumeration
\* order, the collapser calls of its cache misses, then |cut_edges| + 1
\* answerer calls, one per quotient node with its rendered question, then the
\* normalizer call if a normalizer was given; no evaluation reuses an answer.
C28_OracleCallTrace ==
    pc = "done" =>
        /\ Len(runs) = Len(plans)
        /\ \A i \in 1..Len(runs) :
              /\ runs[i].plan = plans[i]
              /\ Len(runs[i].trace.answer.keys) = Len(plans[i].cut_edges) + 1
        /\ Len(base_trace.answer.keys) = Len(toq.keys)
        /\ TraceOfOracles
              = [k \in 1..Len(base_trace.answer.keys) |->
                    <<"answerer", base_trace.answer.keys[k],
                      base_trace.rendered_question.val[base_trace.answer.keys[k]]>>]
                \o Join([i \in 1..Len(runs) |-> ExpectedCallsOfRun(i)])

\* A call with a normalizer has returned: one of its plans missed the cache
\* for one component and hit it for another, and the answerer was asked the
\* same question for the same node in two evaluations.
C28_Witness ==
    /\ pc = "done"
    /\ call.normalizer # "None"
    /\ \E i \in 1..Len(runs) :
          /\ Len(MissedRoots(i)) >= 1
          /\ Len(MissedRoots(i)) < Len(runs[i].collapsed.open_toq_by_root.keys)
    /\ \E a, b \in 1..Len(TraceOfOracles) :
          /\ a < b
          /\ TraceOfOracles[a][1] = "answerer"
          /\ TraceOfOracles[a] = TraceOfOracles[b]

----------------------------------------------------------------------------
(* The depth-first traversal of ToQ.validate *)

\* node n lies on a cycle of parent links
OnCycle(t, n) ==
    LET path == PathUp(t, n, Len(t.keys) + 1) IN
    \E j \in 2..Len(path) : path[j] = n

HasCycle(t) == \E n \in Range(t.keys) : OnCycle(t, n)

\* the checks of validate that come before the traversal all pass
PassesChecksBeforeDfs(t) ==
    /\ t.root_id \in Range(t.keys)
    /\ \A k \in Range(t.keys) :
          /\ t.nodes[k].id = k
          /\ t.nodes[k].parent # None => t.nodes[k].parent \in Range(t.keys)
          /\ t.nodes[k].parent # k
    /\ {k \in Range(t.keys) : t.nodes[k].parent = None} = {t.root_id}

\* C29: validate never raises 'Cycle detected': on an input that passes the
\* checks before the traversal, the traversal meets no child that is on the
\* stack and ends with an empty stack; an input with a cycle of parent links
\* is always rejected, by an earlier check or, when it passes the per-node
\* checks and has at most one parentless node, by the check of the root's
\* parent or the check for unreachable nodes.
C29_CycleErrorNeverRaised ==
    /\ result.error # "cycle"
    /\ PassesChecksBeforeDfs(toq) =>
          LET st == dfs(children(toq), toq.root_id,
                        [visited |-> {}, in_stack |-> {}, err |-> "ok"])
          IN /\ st.err = "ok"
             /\ st.in_stack = {}
             /\ st.visited \subseteq Range(toq.keys)
    /\ (pc \in {"raised", "validated"} /\ HasCycle(toq)) =>
          /\ pc = "raised"
          /\ (/\ toq.root_id \in Range(toq.keys)
              /\ LoopError(toq, toq.keys) = "ok"
              /\ Cardinality({k \in Range(toq.keys) : toq.nodes[k].parent = None}) <= 1)
             => result.error \in {"root must have parent=None", "unreachable nodes"}

\* validate has raised for unreachable nodes on a three-node input whose
\* nodes 2 and 3 are each other's parent.
C29_Witness ==
    /\ pc = "raised"
    /\ Len(toq.keys) = 3
    /\ PassesChecksBeforeDfs(toq)
    /\ HasCycle(toq)
    /\ result.error = "unreachable nodes"

----------------------------------------------------------------------------
(* The summary of run_eval.run *)

\* C30: run_eval.run writes the output file and returns normally whatever the
\* outcomes of the examples, also when every example fails or none is
\* loaded: computing the final summary never raises.
C30_RunEvalReturnsNormally ==
    direct.driver = "run_eval" => direct.pc # "written, then ZeroDivisionError"

====
